---- MODULE Spec2Model ----
(***************************************************************************)
(* The AR screen of Echoes (src/unnamed/part_002, ARScreen): the photo     *)
(* markers projected on the camera view and the "close by" strip, as a     *)
(* function of the device position, the compass heading and the photos    *)
(* of the media library, together with the effects that feed them (the     *)
(* permission/load task, the heading watch and the position watch).        *)
(* Spec is the screen; SpecAngle applies the two forms of angleDiff and    *)
(* SpecGeodesy computeBearing and computeDistance to drawn arguments;      *)
(* SpecMagnetometer is the two screens that take the heading from the raw  *)
(* magnetometer (screens/test.tsx, screens/MapScreen.tsx); SpecGallery is  *)
(* the gallery of screens/GalleryScreen.tsx, SpecGalleryFair the same with *)
(* every awaited answer arriving and SpecGalleryClock the same over one    *)
(* library with the clock moving; SpecMediaGallery is the gallery of       *)
(* photos and videos of screens/test.tsx and SpecArrival the gallery of    *)
(* part_003.                                                               *)
(*                                                                         *)
(* Units.  JavaScript numbers are doubles; the model carries them as       *)
(* integers in fixed units:                                                *)
(*   latitude, longitude   microdegrees  (0.05 degrees = 50000)            *)
(*   bearing, heading      millidegrees  (360 degrees = 360000)            *)
(*   distance              centimetres   (25 m = 2500)                     *)
(*   screen coordinates    1/1000 pixel                                    *)
(*   scale                 1/1000                                          *)
(***************************************************************************)
EXTENDS Integers, Sequences, FiniteSets, TLC

\* ------------------------------------------------------------ constants

\* part_002:18   const CAMERA_HORIZONTAL_FOV = 60;   (degrees)
CAMERA_HORIZONTAL_FOV == 60
\* part_002:19   Dimensions.get('window').width      (pixels, a 360 x 640 window)
SCREEN_WIDTH == 360
\* part_002:20   Dimensions.get('window').height
SCREEN_HEIGHT == 640
\* part_002:23   const LOCATION_THRESHOLD = 0.05;    (degrees, here microdegrees)
LOCATION_THRESHOLD == 50000
\* part_002:24   const CLOSE_BY_DISTANCE = 25;       (metres)
CLOSE_BY_DISTANCE == 25

\* The longest media library the load returns (the code asks for the first 100).
MaxPhotos == 2
\* How many callbacks delivered after the teardown are counted.
MaxLateCallbacks == 2

Degrees(d) == d * 1000
Metres(m) == m * 100
Pixels(p) == p * 1000

Abs(x) == IF x < 0 THEN -x ELSE x
Min(a, b) == IF a < b THEN a ELSE b
Max(a, b) == IF a > b THEN a ELSE b

\* JavaScript's % : the remainder takes the sign of the dividend.
JsRem(a, n) == IF a >= 0 THEN a % n ELSE -((-a) % n)

\* JavaScript's null (no location yet, no marker for a photo).
Null == [null |-> TRUE]

\* ------------------------------------------------------------- geodesy

GeoPoint(lat, lon) == [latitude |-> lat, longitude |-> lon]

\* The positions the location provider delivers: the origin, 50 m north of it,
\* and a point 11 m west of the antimeridian.
Positions ==
    { GeoPoint(0, 0), GeoPoint(450, 0), GeoPoint(0, 179999900) }

\* The location metadata of the assets of the media library, by asset id.
\* Asset 3 lies at latitude 0.00022483040147968264 degrees, the double for which
\* computeDistance from the origin is exactly 25.0; its latitude is carried
\* truncated to the microdegree.  Asset 9 has no location metadata.
AssetLocation ==
    1 :> GeoPoint(90, 0) @@
    2 :> GeoPoint(180, 0) @@
    3 :> GeoPoint(224, 0) @@
    4 :> GeoPoint(900, 0) @@
    5 :> GeoPoint(0, 900) @@
    6 :> GeoPoint(50000, 0) @@
    7 :> GeoPoint(49999, 0) @@
    8 :> GeoPoint(0, -179999900) @@
    9 :> Null

AssetIds == DOMAIN AssetLocation

\* computeDistance (part_002:45-53), the haversine distance
\*   2 * R * atan2(sqrt(a), sqrt(1 - a)),  R = 6371e3,
\*   a = sin(dphi/2)^2 + cos(phi1) * cos(phi2) * sin(dlambda/2)^2,
\* evaluated in doubles at every <<lat1, lon1, lat2, lon2>> of two points among
\* the positions and the asset locations, in centimetres rounded down (so
\* d < 25 m  iff  entry < 2500).
HaversineCm ==
    <<0, 0, 90, 0>> :> 1000 @@
    <<0, 0, 180, 0>> :> 2001 @@
    <<0, 0, 224, 0>> :> 2500 @@
    <<0, 0, 900, 0>> :> 10007 @@
    <<0, 0, 0, 900>> :> 10007 @@
    <<0, 0, 50000, 0>> :> 555974 @@
    <<0, 0, 49999, 0>> :> 555963 @@
    <<0, 0, 0, -179999900>> :> 2001507567 @@
    <<450, 0, 90, 0>> :> 4003 @@
    <<450, 0, 180, 0>> :> 3002 @@
    <<450, 0, 224, 0>> :> 2503 @@
    <<450, 0, 900, 0>> :> 5003 @@
    <<450, 0, 0, 900>> :> 11188 @@
    <<450, 0, 50000, 0>> :> 550970 @@
    <<450, 0, 49999, 0>> :> 550959 @@
    <<450, 0, 0, -179999900>> :> 2001503553 @@
    <<0, 179999900, 90, 0>> :> 2001507183 @@
    <<0, 179999900, 180, 0>> :> 2001506389 @@
    <<0, 179999900, 224, 0>> :> 2001505943 @@
    <<0, 179999900, 900, 0>> :> 2001498610 @@
    <<0, 179999900, 0, 900>> :> 2001497560 @@
    <<0, 179999900, 50000, 0>> :> 2000952703 @@
    <<0, 179999900, 49999, 0>> :> 2000952714 @@
    <<0, 179999900, 0, -179999900>> :> 2223 @@
    <<0, 0, 0, 0>> :> 0 @@
    <<0, 0, 450, 0>> :> 5003 @@
    <<0, 0, 0, 179999900>> :> 2001507567 @@
    <<450, 0, 0, 0>> :> 5003 @@
    <<450, 0, 450, 0>> :> 0 @@
    <<450, 0, 0, 179999900>> :> 2001503553 @@
    <<0, 179999900, 0, 0>> :> 2001507567 @@
    <<0, 179999900, 450, 0>> :> 2001503553 @@
    <<0, 179999900, 0, 179999900>> :> 0 @@
    <<90, 0, 0, 0>> :> 1000 @@
    <<90, 0, 450, 0>> :> 4003 @@
    <<90, 0, 0, 179999900>> :> 2001507183 @@
    <<90, 0, 90, 0>> :> 0 @@
    <<90, 0, 180, 0>> :> 1000 @@
    <<90, 0, 224, 0>> :> 1499 @@
    <<90, 0, 900, 0>> :> 9006 @@
    <<90, 0, 0, 900>> :> 10057 @@
    <<90, 0, 50000, 0>> :> 554973 @@
    <<90, 0, 49999, 0>> :> 554962 @@
    <<90, 0, 0, -179999900>> :> 2001507183 @@
    <<180, 0, 0, 0>> :> 2001 @@
    <<180, 0, 450, 0>> :> 3002 @@
    <<180, 0, 0, 179999900>> :> 2001506389 @@
    <<180, 0, 90, 0>> :> 1000 @@
    <<180, 0, 180, 0>> :> 0 @@
    <<180, 0, 224, 0>> :> 498 @@
    <<180, 0, 900, 0>> :> 8006 @@
    <<180, 0, 0, 900>> :> 10205 @@
    <<180, 0, 50000, 0>> :> 553973 @@
    <<180, 0, 49999, 0>> :> 553962 @@
    <<180, 0, 0, -179999900>> :> 2001506389 @@
    <<224, 0, 0, 0>> :> 2500 @@
    <<224, 0, 450, 0>> :> 2503 @@
    <<224, 0, 0, 179999900>> :> 2001505943 @@
    <<224, 0, 90, 0>> :> 1499 @@
    <<224, 0, 180, 0>> :> 498 @@
    <<224, 0, 224, 0>> :> 0 @@
    <<224, 0, 900, 0>> :> 7507 @@
    <<224, 0, 0, 900>> :> 10315 @@
    <<224, 0, 50000, 0>> :> 553474 @@
    <<224, 0, 49999, 0>> :> 553463 @@
    <<224, 0, 0, -179999900>> :> 2001505943 @@
    <<900, 0, 0, 0>> :> 10007 @@
    <<900, 0, 450, 0>> :> 5003 @@
    <<900, 0, 0, 179999900>> :> 2001498610 @@
    <<900, 0, 90, 0>> :> 9006 @@
    <<900, 0, 180, 0>> :> 8006 @@
    <<900, 0, 224, 0>> :> 7507 @@
    <<900, 0, 900, 0>> :> 0 @@
    <<900, 0, 0, 900>> :> 14152 @@
    <<900, 0, 50000, 0>> :> 545967 @@
    <<900, 0, 49999, 0>> :> 545955 @@
    <<900, 0, 0, -179999900>> :> 2001498610 @@
    <<0, 900, 0, 0>> :> 10007 @@
    <<0, 900, 450, 0>> :> 11188 @@
    <<0, 900, 0, 179999900>> :> 2001497560 @@
    <<0, 900, 90, 0>> :> 10057 @@
    <<0, 900, 180, 0>> :> 10205 @@
    <<0, 900, 224, 0>> :> 10315 @@
    <<0, 900, 900, 0>> :> 14152 @@
    <<0, 900, 0, 900>> :> 0 @@
    <<0, 900, 50000, 0>> :> 556064 @@
    <<0, 900, 49999, 0>> :> 556053 @@
    <<0, 900, 0, -179999900>> :> 2001499784 @@
    <<50000, 0, 0, 0>> :> 555974 @@
    <<50000, 0, 450, 0>> :> 550970 @@
    <<50000, 0, 0, 179999900>> :> 2000952703 @@
    <<50000, 0, 90, 0>> :> 554973 @@
    <<50000, 0, 180, 0>> :> 553973 @@
    <<50000, 0, 224, 0>> :> 553474 @@
    <<50000, 0, 900, 0>> :> 545967 @@
    <<50000, 0, 0, 900>> :> 556064 @@
    <<50000, 0, 50000, 0>> :> 0 @@
    <<50000, 0, 49999, 0>> :> 11 @@
    <<50000, 0, 0, -179999900>> :> 2000952703 @@
    <<49999, 0, 0, 0>> :> 555963 @@
    <<49999, 0, 450, 0>> :> 550959 @@
    <<49999, 0, 0, 179999900>> :> 2000952714 @@
    <<49999, 0, 90, 0>> :> 554962 @@
    <<49999, 0, 180, 0>> :> 553962 @@
    <<49999, 0, 224, 0>> :> 553463 @@
    <<49999, 0, 900, 0>> :> 545955 @@
    <<49999, 0, 0, 900>> :> 556053 @@
    <<49999, 0, 50000, 0>> :> 11 @@
    <<49999, 0, 49999, 0>> :> 0 @@
    <<49999, 0, 0, -179999900>> :> 2000952714 @@
    <<0, -179999900, 0, 0>> :> 2001507567 @@
    <<0, -179999900, 450, 0>> :> 2001503553 @@
    <<0, -179999900, 0, 179999900>> :> 2223 @@
    <<0, -179999900, 90, 0>> :> 2001507183 @@
    <<0, -179999900, 180, 0>> :> 2001506389 @@
    <<0, -179999900, 224, 0>> :> 2001505943 @@
    <<0, -179999900, 900, 0>> :> 2001498610 @@
    <<0, -179999900, 0, 900>> :> 2001499784 @@
    <<0, -179999900, 50000, 0>> :> 2000952703 @@
    <<0, -179999900, 49999, 0>> :> 2000952714 @@
    <<0, -179999900, 0, -179999900>> :> 0

\* Mutant of computeDistance: the distance of the second point from the point
\* (0, 0), whatever the first.
computeDistanceFromOrigin(lat1, lon1, lat2, lon2) == HaversineCm[<<0, 0, lat2, lon2>>]

computeDistance(lat1, lon1, lat2, lon2) == HaversineCm[<<lat1, lon1, lat2, lon2>>]

\* toDeg(Math.atan2(y, x)) of computeBearing (part_002:35-40),
\*   y = sin(dlong) * cos(lat2),
\*   x = cos(lat1) * sin(lat2) - sin(lat1) * cos(lat2) * cos(dlong),
\* evaluated in doubles at the same arguments: millidegrees in [-180000, 180000],
\* rounded to the nearest.  The bearings due north, east, south and west (0, 90000,
\* 180000, -90000) are exact.
AzimuthMilliDeg ==
    <<0, 0, 90, 0>> :> 0 @@
    <<0, 0, 180, 0>> :> 0 @@
    <<0, 0, 224, 0>> :> 0 @@
    <<0, 0, 900, 0>> :> 0 @@
    <<0, 0, 0, 900>> :> 90000 @@
    <<0, 0, 50000, 0>> :> 0 @@
    <<0, 0, 49999, 0>> :> 0 @@
    <<0, 0, 0, -179999900>> :> -90000 @@
    <<450, 0, 90, 0>> :> 180000 @@
    <<450, 0, 180, 0>> :> 180000 @@
    <<450, 0, 224, 0>> :> 180000 @@
    <<450, 0, 900, 0>> :> 0 @@
    <<450, 0, 0, 900>> :> 116565 @@
    <<450, 0, 50000, 0>> :> 0 @@
    <<450, 0, 49999, 0>> :> 0 @@
    <<450, 0, 0, -179999900>> :> -12529 @@
    <<0, 179999900, 90, 0>> :> -48013 @@
    <<0, 179999900, 180, 0>> :> -29055 @@
    <<0, 179999900, 224, 0>> :> -23979 @@
    <<0, 179999900, 900, 0>> :> -6340 @@
    <<0, 179999900, 0, 900>> :> -90000 @@
    <<0, 179999900, 50000, 0>> :> -115 @@
    <<0, 179999900, 49999, 0>> :> -115 @@
    <<0, 179999900, 0, -179999900>> :> 90000 @@
    <<0, 0, 0, 0>> :> 0 @@
    <<0, 0, 450, 0>> :> 0 @@
    <<0, 0, 0, 179999900>> :> 90000 @@
    <<450, 0, 0, 0>> :> 180000 @@
    <<450, 0, 450, 0>> :> 0 @@
    <<450, 0, 0, 179999900>> :> 12529 @@
    <<0, 179999900, 0, 0>> :> -90000 @@
    <<0, 179999900, 450, 0>> :> -12529 @@
    <<0, 179999900, 0, 179999900>> :> 0 @@
    <<90, 0, 0, 0>> :> 180000 @@
    <<90, 0, 450, 0>> :> 0 @@
    <<90, 0, 0, 179999900>> :> 48013 @@
    <<90, 0, 90, 0>> :> 0 @@
    <<90, 0, 180, 0>> :> 0 @@
    <<90, 0, 224, 0>> :> 0 @@
    <<90, 0, 900, 0>> :> 0 @@
    <<90, 0, 0, 900>> :> 95711 @@
    <<90, 0, 50000, 0>> :> 0 @@
    <<90, 0, 49999, 0>> :> 0 @@
    <<90, 0, 0, -179999900>> :> -48013 @@
    <<180, 0, 0, 0>> :> 180000 @@
    <<180, 0, 450, 0>> :> 0 @@
    <<180, 0, 0, 179999900>> :> 29055 @@
    <<180, 0, 90, 0>> :> 180000 @@
    <<180, 0, 180, 0>> :> 0 @@
    <<180, 0, 224, 0>> :> 0 @@
    <<180, 0, 900, 0>> :> 0 @@
    <<180, 0, 0, 900>> :> 101310 @@
    <<180, 0, 50000, 0>> :> 0 @@
    <<180, 0, 49999, 0>> :> 0 @@
    <<180, 0, 0, -179999900>> :> -29055 @@
    <<224, 0, 0, 0>> :> 180000 @@
    <<224, 0, 450, 0>> :> 0 @@
    <<224, 0, 0, 179999900>> :> 23979 @@
    <<224, 0, 90, 0>> :> 180000 @@
    <<224, 0, 180, 0>> :> 180000 @@
    <<224, 0, 224, 0>> :> 0 @@
    <<224, 0, 900, 0>> :> 0 @@
    <<224, 0, 0, 900>> :> 104026 @@
    <<224, 0, 50000, 0>> :> 0 @@
    <<224, 0, 49999, 0>> :> 0 @@
    <<224, 0, 0, -179999900>> :> -23979 @@
    <<900, 0, 0, 0>> :> 180000 @@
    <<900, 0, 450, 0>> :> 180000 @@
    <<900, 0, 0, 179999900>> :> 6340 @@
    <<900, 0, 90, 0>> :> 180000 @@
    <<900, 0, 180, 0>> :> 180000 @@
    <<900, 0, 224, 0>> :> 180000 @@
    <<900, 0, 900, 0>> :> 0 @@
    <<900, 0, 0, 900>> :> 135000 @@
    <<900, 0, 50000, 0>> :> 0 @@
    <<900, 0, 49999, 0>> :> 0 @@
    <<900, 0, 0, -179999900>> :> -6340 @@
    <<0, 900, 0, 0>> :> -90000 @@
    <<0, 900, 450, 0>> :> -63435 @@
    <<0, 900, 0, 179999900>> :> 90000 @@
    <<0, 900, 90, 0>> :> -84289 @@
    <<0, 900, 180, 0>> :> -78690 @@
    <<0, 900, 224, 0>> :> -75974 @@
    <<0, 900, 900, 0>> :> -45000 @@
    <<0, 900, 0, 900>> :> 0 @@
    <<0, 900, 50000, 0>> :> -1031 @@
    <<0, 900, 49999, 0>> :> -1031 @@
    <<0, 900, 0, -179999900>> :> 90000 @@
    <<50000, 0, 0, 0>> :> 180000 @@
    <<50000, 0, 450, 0>> :> 180000 @@
    <<50000, 0, 0, 179999900>> :> 115 @@
    <<50000, 0, 90, 0>> :> 180000 @@
    <<50000, 0, 180, 0>> :> 180000 @@
    <<50000, 0, 224, 0>> :> 180000 @@
    <<50000, 0, 900, 0>> :> 180000 @@
    <<50000, 0, 0, 900>> :> 178969 @@
    <<50000, 0, 50000, 0>> :> 0 @@
    <<50000, 0, 49999, 0>> :> 180000 @@
    <<50000, 0, 0, -179999900>> :> -115 @@
    <<49999, 0, 0, 0>> :> 180000 @@
    <<49999, 0, 450, 0>> :> 180000 @@
    <<49999, 0, 0, 179999900>> :> 115 @@
    <<49999, 0, 90, 0>> :> 180000 @@
    <<49999, 0, 180, 0>> :> 180000 @@
    <<49999, 0, 224, 0>> :> 180000 @@
    <<49999, 0, 900, 0>> :> 180000 @@
    <<49999, 0, 0, 900>> :> 178969 @@
    <<49999, 0, 50000, 0>> :> 0 @@
    <<49999, 0, 49999, 0>> :> 0 @@
    <<49999, 0, 0, -179999900>> :> -115 @@
    <<0, -179999900, 0, 0>> :> 90000 @@
    <<0, -179999900, 450, 0>> :> 12529 @@
    <<0, -179999900, 0, 179999900>> :> -90000 @@
    <<0, -179999900, 90, 0>> :> 48013 @@
    <<0, -179999900, 180, 0>> :> 29055 @@
    <<0, -179999900, 224, 0>> :> 23979 @@
    <<0, -179999900, 900, 0>> :> 6340 @@
    <<0, -179999900, 0, 900>> :> -90000 @@
    <<0, -179999900, 50000, 0>> :> 115 @@
    <<0, -179999900, 49999, 0>> :> 115 @@
    <<0, -179999900, 0, -179999900>> :> 0

\* Mutant of computeBearing: the angle of atan2 in degrees, not normalised.
computeBearingOfAtan2(lat1, long1, lat2, long2) ==
    AzimuthMilliDeg[<<lat1, long1, lat2, long2>>]

\* Mutant of computeBearing: the back bearing, half a turn from the bearing.
computeBearingBack(lat1, long1, lat2, long2) ==
    JsRem(AzimuthMilliDeg[<<lat1, long1, lat2, long2>>] + Degrees(540), Degrees(360))

\* part_002:29-43: bearing = (toDeg(atan2(y, x)) + 360) % 360.
computeBearing(lat1, long1, lat2, long2) ==
    JsRem(AzimuthMilliDeg[<<lat1, long1, lat2, long2>>] + Degrees(360), Degrees(360))

\* part_002:55-64
isSameLocation(a, b, threshold) ==
    /\ Abs(a.latitude - b.latitude) < threshold
    /\ Abs(a.longitude - b.longitude) < threshold

\* ---------------------------------------------------------------- state

VARIABLES
    mounted,              \* the ARScreen component is mounted
    hasPermissions,       \* useState {camera, location, media}       (part_002:74)
    location,             \* useState coords or null                   (part_002:79)
    photos,               \* useState PhotoMarker[]                    (part_002:80)
    heading,              \* useState number, millidegrees             (part_002:81)
    permissionsTask,      \* where the async requestPermissions stands (part_002:91)
    headingSubscription,  \* the heading effect's let                  (part_002:134)
    headingWatch,         \* the watchHeadingAsync subscription itself
    locationSubscription, \* the location effect's let                 (part_002:150)
    locationWatch,        \* the watchPositionAsync subscription itself
    screen,               \* what the last render put on the screen
    lastPosition,         \* history: the position most recently delivered
    lastHeading,          \* history: the heading most recently delivered
    lateCallbacks,        \* history: sensor callbacks run after the teardown
    loadedAssets,         \* history: [assets |-> those of the last load], or null
    calc,                 \* a computation checked on its own: arguments, result
    gallery               \* the PhotoGallery component of screens/GalleryScreen.tsx

vars ==
    << mounted, hasPermissions, location, photos, heading, permissionsTask,
       headingSubscription, headingWatch, locationSubscription, locationWatch,
       screen, lastPosition, lastHeading, lateCallbacks, loadedAssets, calc,
       gallery >>

\* The variables of the AR screen.
screenVars ==
    << mounted, hasPermissions, location, photos, heading, permissionsTask,
       headingSubscription, headingWatch, locationSubscription, locationWatch,
       screen, lastPosition, lastHeading, lateCallbacks, loadedAssets >>

\* The headings the compass delivers, in millidegrees.
HeadingValues ==
    { Degrees(0), Degrees(30), Degrees(31), Degrees(90), Degrees(180),
      Degrees(330), Degrees(350) }

\* A LocationHeadingObject: magHeading with trueHeading -1 (not available), or,
\* where the platform gives no magHeading, trueHeading alone.
HeadingSamples ==
    { [magHeading |-> h, trueHeading |-> Degrees(-1)] : h \in HeadingValues }
        \cup { [trueHeading |-> h] : h \in HeadingValues }

\* What getAssetsAsync can return: the assets of a library, in the library's order.
Libraries ==
    { lib \in UNION { [1..n -> AssetIds] : n \in 0..MaxPhotos } :
        \A i, j \in DOMAIN lib : i # j => lib[i] # lib[j] }

\* -------------------------------------------------------------- render

\* Mutant of photosWithLocation: an asset without a location becomes a photo at
\* latitude 0, longitude 0 (as screens/test.tsx:488 does in the gallery).
photosWithDefaultLocation(assets) ==
    [i \in DOMAIN assets |->
        IF AssetLocation[assets[i]] = Null
        THEN [id |-> assets[i], latitude |-> 0, longitude |-> 0]
        ELSE [id |-> assets[i],
              latitude |-> AssetLocation[assets[i]].latitude,
              longitude |-> AssetLocation[assets[i]].longitude]]

\* part_002:113-125: the PhotoMarker of each asset whose info has a location
\* (null for the others), then the filter that drops the nulls.
photosWithLocation(assets) ==
    LET mapped == [i \in DOMAIN assets |->
                     IF AssetLocation[assets[i]] = Null
                     THEN Null
                     ELSE [id |-> assets[i],
                           latitude |-> AssetLocation[assets[i]].latitude,
                           longitude |-> AssetLocation[assets[i]].longitude]]
    IN  SelectSeq(mapped, LAMBDA p : p # Null)

\* Mutant of angleDiff: the wrap of screens/test.tsx:88, +180 in place of +540.
angleDiffPlus180(dynamicBearing, hd) ==
    JsRem(dynamicBearing - hd + Degrees(180), Degrees(360)) - Degrees(180)

\* Mutant of angleDiff: the difference of bearing and heading, not wrapped.
angleDiffUnwrapped(dynamicBearing, hd) ==
    dynamicBearing - hd

\* part_002:204: ((dynamicBearing - heading + 540) % 360) - 180
angleDiff(dynamicBearing, hd) ==
    JsRem(dynamicBearing - hd + Degrees(540), Degrees(360)) - Degrees(180)

\* screens/test.tsx:67: the correction added to the heading before the wrap.
HEADING_OFFSET == 0

\* screens/test.tsx:84-88: adjustedHeading = (heading + HEADING_OFFSET) % 360;
\* angleDiff = ((photo.bearing - adjustedHeading + 180) % 360) - 180
angleDiffOfTestScreen(bearing, hd) ==
    LET adjustedHeading == JsRem(hd + Degrees(HEADING_OFFSET), Degrees(360))
        diff == bearing - adjustedHeading
    IN  JsRem(diff + Degrees(180), Degrees(360)) - Degrees(180)

\* Mutant of markerCloseBy: the close-by test left out of renderMarkers.
markerNeverCloseBy(dynamicDistance) ==
    FALSE

\* part_002:194: the test that keeps a "close by" photo out of the AR markers.
markerCloseBy(dynamicDistance) ==
    dynamicDistance < Metres(CLOSE_BY_DISTANCE)

\* Mutant of outsideFieldOfView: the whole field of view in place of its half.
outsideWholeFieldOfView(diff) ==
    Abs(diff) > Degrees(CAMERA_HORIZONTAL_FOV)

\* Mutant of outsideFieldOfView: >= in place of >.
outsideOrOnEdgeOfFieldOfView(diff) ==
    Abs(diff) >= Degrees(CAMERA_HORIZONTAL_FOV) \div 2

\* part_002:207: the test that drops a photo outside the horizontal field of view.
outsideFieldOfView(diff) ==
    Abs(diff) > Degrees(CAMERA_HORIZONTAL_FOV) \div 2

\* Mutant of renderMarker: the marker's left edge at xPos, the half-width not
\* subtracted.
renderMarkerAtLeftEdge(loc, hd, photo) ==
    IF ~isSameLocation(GeoPoint(loc.latitude, loc.longitude),
                       GeoPoint(photo.latitude, photo.longitude),
                       LOCATION_THRESHOLD)
    THEN Null
    ELSE
    LET dynamicDistance ==
            computeDistance(loc.latitude, loc.longitude, photo.latitude, photo.longitude)
    IN
    IF markerCloseBy(dynamicDistance) THEN Null
    ELSE
    LET dynamicBearing ==
            computeBearing(loc.latitude, loc.longitude, photo.latitude, photo.longitude)
        diff == angleDiff(dynamicBearing, hd)
    IN
    IF outsideFieldOfView(diff) THEN Null
    ELSE
    LET xPos == ((diff + Degrees(CAMERA_HORIZONTAL_FOV) \div 2) * SCREEN_WIDTH)
                    \div CAMERA_HORIZONTAL_FOV
        yPos == Pixels(SCREEN_HEIGHT) \div 2 - Pixels(25)
        scale == Min(1500, (50 * 1000 * 100) \div Max(dynamicDistance, Metres(1)))
    IN  [id |-> photo.id,
         left |-> xPos,
         top |-> yPos,
         scale |-> scale,
         text |-> (dynamicDistance + 50) \div 100]

\* Mutant of renderMarker: the scale without its cap.
renderMarkerUncapped(loc, hd, photo) ==
    IF ~isSameLocation(GeoPoint(loc.latitude, loc.longitude),
                       GeoPoint(photo.latitude, photo.longitude),
                       LOCATION_THRESHOLD)
    THEN Null
    ELSE
    LET dynamicDistance ==
            computeDistance(loc.latitude, loc.longitude, photo.latitude, photo.longitude)
    IN
    IF markerCloseBy(dynamicDistance) THEN Null
    ELSE
    LET dynamicBearing ==
            computeBearing(loc.latitude, loc.longitude, photo.latitude, photo.longitude)
        diff == angleDiff(dynamicBearing, hd)
    IN
    IF outsideFieldOfView(diff) THEN Null
    ELSE
    LET xPos == ((diff + Degrees(CAMERA_HORIZONTAL_FOV) \div 2) * SCREEN_WIDTH)
                    \div CAMERA_HORIZONTAL_FOV
        yPos == Pixels(SCREEN_HEIGHT) \div 2 - Pixels(25)
        scale == (50 * 1000 * 100) \div Max(dynamicDistance, Metres(1))
    IN  [id |-> photo.id,
         left |-> xPos - Pixels(25),
         top |-> yPos,
         scale |-> scale,
         text |-> (dynamicDistance + 50) \div 100]

\* part_002:174-237: the body of photos.map in renderMarkers, for one photo:
\* null, or the marker's id, position, scale and distance label.
renderMarker(loc, hd, photo) ==
    IF ~isSameLocation(GeoPoint(loc.latitude, loc.longitude),
                       GeoPoint(photo.latitude, photo.longitude),
                       LOCATION_THRESHOLD)
    THEN Null
    ELSE
    LET dynamicDistance ==
            computeDistance(loc.latitude, loc.longitude, photo.latitude, photo.longitude)
    IN
    IF markerCloseBy(dynamicDistance) THEN Null
    ELSE
    LET dynamicBearing ==
            computeBearing(loc.latitude, loc.longitude, photo.latitude, photo.longitude)
        diff == angleDiff(dynamicBearing, hd)
    IN
    IF outsideFieldOfView(diff) THEN Null
    ELSE
    LET xPos == ((diff + Degrees(CAMERA_HORIZONTAL_FOV) \div 2) * SCREEN_WIDTH)
                    \div CAMERA_HORIZONTAL_FOV
        yPos == Pixels(SCREEN_HEIGHT) \div 2 - Pixels(25)
        scale == Min(1500, (50 * 1000 * 100) \div Max(dynamicDistance, Metres(1)))
    IN  [id |-> photo.id,
         left |-> xPos - Pixels(25),
         top |-> yPos,
         scale |-> scale,
         text |-> (dynamicDistance + 50) \div 100]

\* Mutant of renderMarkers: the entries in reverse order of photos.
renderMarkersReversed(loc, hd, ph) ==
    IF loc = Null THEN <<>>
    ELSE [i \in DOMAIN ph |-> renderMarker(loc, hd, ph[Len(ph) + 1 - i])]

\* part_002:171-238: null without a location, else one entry (a marker or null)
\* per photo, in the order of photos.
renderMarkers(loc, hd, ph) ==
    IF loc = Null THEN <<>>
    ELSE [i \in DOMAIN ph |-> renderMarker(loc, hd, ph[i])]

\* Mutant of photoCloseBy: <= in place of <.
photoCloseByOrAtThreshold(loc, photo) ==
    computeDistance(loc.latitude, loc.longitude, photo.latitude, photo.longitude)
        <= Metres(CLOSE_BY_DISTANCE)

\* part_002:243-249: the predicate of the close-by filter.
photoCloseBy(loc, photo) ==
    computeDistance(loc.latitude, loc.longitude, photo.latitude, photo.longitude)
        < Metres(CLOSE_BY_DISTANCE)

\* Mutant of closeByPhotos: the close-by photos sorted by ascending distance, ties
\* by id.
closeByPhotosSorted(loc, ph) ==
    IF loc = Null THEN <<>>
    ELSE
    LET near == { i \in DOMAIN ph : photoCloseBy(loc, ph[i]) }
        d(i) == computeDistance(loc.latitude, loc.longitude,
                                ph[i].latitude, ph[i].longitude)
        before(i, j) == d(i) < d(j) \/ (d(i) = d(j) /\ ph[i].id < ph[j].id)
        rank(i) == 1 + Cardinality({ j \in near : before(j, i) })
    IN  [k \in 1..Cardinality(near) |-> ph[CHOOSE i \in near : rank(i) = k]]

\* part_002:240-251
closeByPhotos(loc, ph) ==
    IF loc # Null
    THEN SelectSeq(ph, LAMBDA photo : photoCloseBy(loc, photo))
    ELSE <<>>

\* Mutant of Render: the close-by strip lists only the close-by photos inside the
\* field of view.
RenderStripInView(perms, loc, hd, ph) ==
    IF \E k \in DOMAIN perms : perms[k] = FALSE
    THEN [view |-> "error", markers |-> <<>>, closeBy |-> <<>>]
    ELSE [view |-> "ar",
          markers |-> SelectSeq(renderMarkers(loc, hd, ph), LAMBDA m : m # Null),
          closeBy |->
              SelectSeq(closeByPhotos(loc, ph),
                        LAMBDA photo :
                            ~outsideFieldOfView(
                                angleDiff(computeBearing(loc.latitude, loc.longitude,
                                                         photo.latitude, photo.longitude),
                                          hd)))]

\* part_002:253-297: the error view unless every permission is granted; else the
\* camera view with the markers of renderMarkers (React draws nothing for a null
\* entry) and the close-by strip.
Render(perms, loc, hd, ph) ==
    IF \E k \in DOMAIN perms : perms[k] = FALSE
    THEN [view |-> "error", markers |-> <<>>, closeBy |-> <<>>]
    ELSE [view |-> "ar",
          markers |-> SelectSeq(renderMarkers(loc, hd, ph), LAMBDA m : m # Null),
          closeBy |-> closeByPhotos(loc, ph)]

\* The screen once the component is unmounted.
TornDown == [view |-> "none", markers |-> <<>>, closeBy |-> <<>>]

\* ---------------------------------------------------------------- init

\* The component just mounted: the state of the useState calls, and the three
\* effects started (requestPermissions awaiting the permission prompts, both
\* watch calls awaiting their subscription).
InitScreen ==
    /\ mounted = TRUE
    /\ hasPermissions = [camera |-> FALSE, location |-> FALSE, media |-> FALSE]
    /\ location = Null
    /\ photos = <<>>
    /\ heading = 0
    /\ permissionsTask = "permissions"
    /\ headingSubscription = "null"
    /\ headingWatch = "pending"
    /\ locationSubscription = "null"
    /\ locationWatch = "pending"
    /\ screen = Render([camera |-> FALSE, location |-> FALSE, media |-> FALSE],
                       Null, 0, <<>>)
    /\ lastPosition = Null
    /\ lastHeading = 0
    /\ lateCallbacks = 0
    /\ loadedAssets = Null

\* No pure function is being evaluated beside the screen.
Idle == [op |-> "none"]

\* The state a render of the component reads (GalleryScreen.tsx:194-200).
stateOf(g) ==
    [ currentLocation |-> g.currentLocation, photos |-> g.photos,
      endCursor |-> g.endCursor, hasNextPage |-> g.hasNextPage,
      loading |-> g.loading, loadingMore |-> g.loadingMore ]

\* GalleryScreen.tsx:379-383: handleEndReached as created in a render: the state
\* it reads itself and the state the loadMorePhotos it calls reads.
closureOf(r) ==
    [ currentLocation |-> r.currentLocation, hasNextPage |-> r.hasNextPage,
      loadingMore |-> r.loadingMore, endCursor |-> r.endCursor ]

\* GalleryScreen.tsx:194-222: the PhotoGallery component just mounted and rendered
\* for the first time, over a media library, the mount effect awaiting the
\* permission prompts and the watch effect its subscription.  endCursor 0 stands
\* for null (no cursor yet); a cursor k > 0 stands after the k-th asset of the
\* library.  notifiedPhotos 0 stands for no entry; the clock starts after 0, as
\* Date.now() does.  sent and arrival are the notifications sent so far and
\* endReached the times the list has called onEndReached.
initialState(library) ==
    [ mounted |-> TRUE,
      library |-> library,
      currentLocation |-> Null,
      photos |-> <<>>,
      visitedLocations |-> <<>>,
      endCursor |-> 0,
      hasNextPage |-> TRUE,
      loading |-> TRUE,
      loadingMore |-> FALSE ]

PhotoGallery(library) ==
    [ mounted |-> TRUE,
      library |-> library,
      currentLocation |-> Null,
      photos |-> <<>>,
      visitedLocations |-> <<>>,
      endCursor |-> 0,
      hasNextPage |-> TRUE,
      loading |-> TRUE,
      loadingMore |-> FALSE,
      rendered |-> stateOf(initialState(library)),
      handleEndReached |-> closureOf(initialState(library)),
      locationSet |-> FALSE,
      task |-> "permissions",
      coords |-> Null,
      loads |-> <<>>,
      endReached |-> 0,
      subscription |-> "undefined",
      watch |-> "pending",
      now |-> 1,
      notifiedPhotos |-> [id \in AssetIds |-> 0],
      sent |-> <<>>,
      arrival |-> "none" ]

\* Beside the AR screen the gallery stands as mounted over an empty library.
Init == InitScreen /\ calc = Idle /\ gallery = PhotoGallery(<<>>)

\* ------------------------------------------------------------- actions
\* Every state setter of a mounted component is followed by its re-render; after
\* the unmount a setter changes nothing (React drops the update).  A promise that
\* rejects leaves its task where it stands, which is the state with the promise
\* still pending.

\* part_002:92-104: the three permission prompts answered (Promise.all).
PermissionsResolved(camera, loc, media) ==
    /\ permissionsTask = "permissions"
    /\ permissionsTask' = IF loc THEN "position" ELSE "done"
    /\ IF mounted
       THEN /\ hasPermissions' = [camera |-> camera, location |-> loc, media |-> media]
            /\ screen' = Render(hasPermissions', location, heading, photos)
       ELSE UNCHANGED << hasPermissions, screen >>
    /\ UNCHANGED << mounted, location, photos, heading, headingSubscription,
                    headingWatch, locationSubscription, locationWatch,
                    lastPosition, lastHeading, lateCallbacks >>
    /\ UNCHANGED loadedAssets
    /\ UNCHANGED << calc, gallery >>

\* part_002:105-106: getCurrentPositionAsync answered; setLocation(coords).
PositionResolved(coords) ==
    /\ permissionsTask = "position"
    /\ permissionsTask' = "assets"
    /\ IF mounted
       THEN /\ location' = coords
            /\ lastPosition' = coords
            /\ screen' = Render(hasPermissions, location', heading, photos)
       ELSE UNCHANGED << location, lastPosition, screen >>
    /\ UNCHANGED << mounted, hasPermissions, photos, heading, headingSubscription,
                    headingWatch, locationSubscription, locationWatch,
                    lastHeading, lateCallbacks >>
    /\ UNCHANGED loadedAssets
    /\ UNCHANGED << calc, gallery >>

\* part_002:108-125: getAssetsAsync and every getAssetInfoAsync answered;
\* setPhotos(the photos with a location).
AssetsResolved(assets) ==
    /\ permissionsTask = "assets"
    /\ permissionsTask' = "done"
    /\ IF mounted
       THEN /\ photos' = photosWithLocation(assets)
            /\ loadedAssets' = [assets |-> assets]
            /\ screen' = Render(hasPermissions, location, heading, photos')
       ELSE UNCHANGED << photos, screen, loadedAssets >>
    /\ UNCHANGED << mounted, hasPermissions, location, heading, headingSubscription,
                    headingWatch, locationSubscription, locationWatch,
                    lastPosition, lastHeading, lateCallbacks >>
    /\ UNCHANGED << calc, gallery >>

\* part_002:136: watchHeadingAsync answered; its subscription is stored in the let.
WatchHeadingResolved ==
    /\ headingWatch = "pending"
    /\ headingWatch' = "active"
    /\ headingSubscription' = "subscription"
    /\ UNCHANGED << mounted, hasPermissions, location, photos, heading,
                    permissionsTask, locationSubscription, locationWatch, screen,
                    lastPosition, lastHeading, lateCallbacks >>
    /\ UNCHANGED loadedAssets
    /\ UNCHANGED << calc, gallery >>

\* part_002:137: headingData.magHeading ?? headingData.trueHeading
newHeading(headingData) ==
    IF "magHeading" \in DOMAIN headingData
    THEN headingData.magHeading
    ELSE headingData.trueHeading

\* Mutant of HeadingCallback: the heading is stored but the markers on the screen
\* are not computed again.
HeadingCallbackWithoutRender(headingData) ==
    /\ headingWatch = "active"
    /\ IF mounted
       THEN /\ heading' = newHeading(headingData)
            /\ lastHeading' = newHeading(headingData)
            /\ UNCHANGED << screen, lateCallbacks >>
       ELSE /\ lateCallbacks < MaxLateCallbacks
            /\ lateCallbacks' = lateCallbacks + 1
            /\ UNCHANGED << heading, lastHeading, screen >>
    /\ UNCHANGED << mounted, hasPermissions, location, photos, permissionsTask,
                    headingSubscription, headingWatch, locationSubscription,
                    locationWatch, lastPosition >>
    /\ UNCHANGED loadedAssets
    /\ UNCHANGED << calc, gallery >>

\* part_002:136-139: the heading callback; setHeading(newHeading).
HeadingCallback(headingData) ==
    /\ headingWatch = "active"
    /\ IF mounted
       THEN /\ heading' = newHeading(headingData)
            /\ lastHeading' = newHeading(headingData)
            /\ screen' = Render(hasPermissions, location, heading', photos)
            /\ UNCHANGED lateCallbacks
       ELSE /\ lateCallbacks < MaxLateCallbacks
            /\ lateCallbacks' = lateCallbacks + 1
            /\ UNCHANGED << heading, lastHeading, screen >>
    /\ UNCHANGED << mounted, hasPermissions, location, photos, permissionsTask,
                    headingSubscription, headingWatch, locationSubscription,
                    locationWatch, lastPosition >>
    /\ UNCHANGED loadedAssets
    /\ UNCHANGED << calc, gallery >>

\* part_002:152: watchPositionAsync answered; its subscription is stored in the let.
WatchPositionResolved ==
    /\ locationWatch = "pending"
    /\ locationWatch' = "active"
    /\ locationSubscription' = "subscription"
    /\ UNCHANGED << mounted, hasPermissions, location, photos, heading,
                    permissionsTask, headingSubscription, headingWatch, screen,
                    lastPosition, lastHeading, lateCallbacks >>
    /\ UNCHANGED loadedAssets
    /\ UNCHANGED << calc, gallery >>

\* Mutant of LocationCallback: the position is stored but the screen is not
\* rendered again.
LocationCallbackWithoutRender(coords) ==
    /\ locationWatch = "active"
    /\ IF mounted
       THEN /\ location' = coords
            /\ lastPosition' = coords
            /\ UNCHANGED << screen, lateCallbacks >>
       ELSE /\ lateCallbacks < MaxLateCallbacks
            /\ lateCallbacks' = lateCallbacks + 1
            /\ UNCHANGED << location, lastPosition, screen >>
    /\ UNCHANGED << mounted, hasPermissions, photos, heading, permissionsTask,
                    headingSubscription, headingWatch, locationSubscription,
                    locationWatch, lastHeading >>
    /\ UNCHANGED loadedAssets
    /\ UNCHANGED << calc, gallery >>

\* part_002:158-160: the position callback; setLocation(loc.coords).
LocationCallback(coords) ==
    /\ locationWatch = "active"
    /\ IF mounted
       THEN /\ location' = coords
            /\ lastPosition' = coords
            /\ screen' = Render(hasPermissions, location', heading, photos)
            /\ UNCHANGED lateCallbacks
       ELSE /\ lateCallbacks < MaxLateCallbacks
            /\ lateCallbacks' = lateCallbacks + 1
            /\ UNCHANGED << location, lastPosition, screen >>
    /\ UNCHANGED << mounted, hasPermissions, photos, heading, permissionsTask,
                    headingSubscription, headingWatch, locationSubscription,
                    locationWatch, lastHeading >>
    /\ UNCHANGED loadedAssets
    /\ UNCHANGED << calc, gallery >>

\* part_002:143-145 and 165-167: the component unmounts and the cleanups of both
\* effects run:  subscription && subscription.remove().  React discards the state
\* of the unmounted component (here: back to the initial values).
Unmount ==
    /\ mounted
    /\ mounted' = FALSE
    /\ headingWatch' = IF headingSubscription # "null" THEN "removed" ELSE headingWatch
    /\ locationWatch' = IF locationSubscription # "null" THEN "removed" ELSE locationWatch
    /\ screen' = TornDown
    /\ hasPermissions' = [camera |-> FALSE, location |-> FALSE, media |-> FALSE]
    /\ location' = Null
    /\ photos' = <<>>
    /\ heading' = 0
    /\ lastPosition' = Null
    /\ lastHeading' = 0
    /\ loadedAssets' = Null
    /\ UNCHANGED << permissionsTask, headingSubscription, locationSubscription,
                    lateCallbacks >>
    /\ UNCHANGED << calc, gallery >>

Next ==
    \/ \E camera, loc, media \in BOOLEAN : PermissionsResolved(camera, loc, media)
    \/ \E coords \in Positions : PositionResolved(coords)
    \/ \E assets \in Libraries : AssetsResolved(assets)
    \/ WatchHeadingResolved
    \/ \E headingData \in HeadingSamples : HeadingCallback(headingData)
    \/ WatchPositionResolved
    \/ \E coords \in Positions : LocationCallback(coords)
    \/ Unmount

Spec == Init /\ [][Next]_vars

\* ------------------------------------------------- angleDiff on its own
\* The angular offset as a function of its two arguments: the bearing and the
\* heading are drawn from the whole degrees of [0, 360) and the angleDiff of the
\* AR screen (part_002) and of the test screen (screens/test.tsx) are applied to
\* them, beside the screen as it is just after the mount.

WholeDegrees == { Degrees(d) : d \in 0..359 }

InitAngle ==
    /\ InitScreen
    /\ calc \in [op : {"angleDiff"}, bearing : WholeDegrees, heading : WholeDegrees,
                 done : {FALSE}, result : {0}, testResult : {0}]
    /\ gallery = PhotoGallery(<<>>)

\* part_002:204 and screens/test.tsx:84-88 evaluated: the angleDiff of the AR
\* screen and the angleDiff of the test screen, of the drawn bearing and heading.
ComputeAngleDiff ==
    /\ calc.op = "angleDiff"
    /\ ~calc.done
    /\ calc' = [calc EXCEPT
           !.done = TRUE,
           !.result = angleDiff(calc.bearing, calc.heading),
           !.testResult = angleDiffOfTestScreen(calc.bearing, calc.heading)]
    /\ UNCHANGED << screenVars, gallery >>

NextAngle == ComputeAngleDiff

SpecAngle == InitAngle /\ [][NextAngle]_vars

\* ------------------------------------------- the geodesy on its own
\* computeBearing and computeDistance as functions of two points: the points are
\* drawn from the positions and the asset locations, and the two functions are
\* applied to them in both orders, beside the screen as it is just after the
\* mount.

GeodesyPoints ==
    Positions \cup { AssetLocation[id] : id \in { a \in AssetIds : AssetLocation[a] # Null } }

InitGeodesy ==
    /\ InitScreen
    /\ calc \in [op : {"geodesy"}, from : GeodesyPoints, to : GeodesyPoints,
                 done : {FALSE}, bearing : {0}, distance : {0}, distanceBack : {0}]
    /\ gallery = PhotoGallery(<<>>)

\* part_002:29-53 evaluated: the bearing and the distance from the first point
\* to the second, and the distance from the second to the first.
ComputeGeodesy ==
    /\ calc.op = "geodesy"
    /\ ~calc.done
    /\ calc' = [calc EXCEPT
           !.done = TRUE,
           !.bearing = computeBearing(calc.from.latitude, calc.from.longitude,
                                      calc.to.latitude, calc.to.longitude),
           !.distance = computeDistance(calc.from.latitude, calc.from.longitude,
                                        calc.to.latitude, calc.to.longitude),
           !.distanceBack = computeDistance(calc.to.latitude, calc.to.longitude,
                                            calc.from.latitude, calc.from.longitude)]
    /\ UNCHANGED << screenVars, gallery >>

NextGeodesy == ComputeGeodesy

SpecGeodesy == InitGeodesy /\ [][NextGeodesy]_vars

\* ------------------------------------------- the magnetometer listeners
\* The two screens that take the heading from the raw magnetometer
\* (screens/test.tsx ARScreen and screens/MapScreen.tsx ARPhotoOverlay), each with
\* its listener; calc holds, for each, the sample last delivered and the heading
\* stored by setHeading.

\* A component of the magnetic field in microtesla, a double:  m * 10^e.
Double(m, e) == [m |-> m, e |-> e]
Whole(n) == Double(n, 0)

\* The samples the magnetometer delivers: the field along each axis and each
\* diagonal, two fields just left of +y, and the fields a hair (1e-18 microtesla)
\* off +y and off +x.
MagnetometerSamples ==
    { [x |-> Whole(0), y |-> Whole(40)],
      [x |-> Whole(40), y |-> Whole(0)],
      [x |-> Whole(0), y |-> Whole(-40)],
      [x |-> Whole(-40), y |-> Whole(0)],
      [x |-> Whole(40), y |-> Whole(40)],
      [x |-> Whole(-40), y |-> Whole(40)],
      [x |-> Whole(40), y |-> Whole(-40)],
      [x |-> Whole(-40), y |-> Whole(-40)],
      [x |-> Whole(30), y |-> Whole(40)],
      [x |-> Double(-6, -2), y |-> Whole(40)],
      [x |-> Double(-1, -18), y |-> Whole(40)],
      [x |-> Whole(40), y |-> Double(-1, -18)] }

\* Math.atan2(a, b) * (180 / Math.PI)  (test.tsx:73, MapScreen.tsx:109) evaluated in
\* doubles at <<a, b>>, in millidegrees rounded down (so the double is negative iff
\* the entry is).
Atan2Degrees ==
    <<Whole(0), Whole(40)>> :> 0 @@
    <<Whole(40), Whole(0)>> :> 90000 @@
    <<Whole(0), Whole(-40)>> :> 180000 @@
    <<Whole(-40), Whole(0)>> :> -90000 @@
    <<Whole(40), Whole(40)>> :> 45000 @@
    <<Whole(-40), Whole(40)>> :> -45000 @@
    <<Whole(40), Whole(-40)>> :> 135000 @@
    <<Whole(-40), Whole(-40)>> :> -135000 @@
    <<Whole(30), Whole(40)>> :> 36869 @@
    <<Whole(40), Whole(30)>> :> 53130 @@
    <<Double(-6, -2), Whole(40)>> :> -86 @@
    <<Whole(40), Double(-6, -2)>> :> 90085 @@
    <<Double(-1, -18), Whole(40)>> :> -1 @@
    <<Whole(40), Double(-1, -18)>> :> 90000

\* The double sum  angle + 360  of  angle += 360  (test.tsx:74, MapScreen.tsx:111)
\* for the angle of Atan2Degrees at <<a, b>>, in millidegrees rounded down (so the
\* double is below 360 iff the entry is below 360000).  The sum of 360 and a
\* negative angle of less than 2.8e-14 degrees rounds to the double 360.
Atan2DegreesPlus360 ==
    <<Whole(0), Whole(40)>> :> 360000 @@
    <<Whole(40), Whole(0)>> :> 450000 @@
    <<Whole(0), Whole(-40)>> :> 540000 @@
    <<Whole(-40), Whole(0)>> :> 270000 @@
    <<Whole(40), Whole(40)>> :> 405000 @@
    <<Whole(-40), Whole(40)>> :> 315000 @@
    <<Whole(40), Whole(-40)>> :> 495000 @@
    <<Whole(-40), Whole(-40)>> :> 225000 @@
    <<Whole(30), Whole(40)>> :> 396869 @@
    <<Whole(40), Whole(30)>> :> 413130 @@
    <<Double(-6, -2), Whole(40)>> :> 359914 @@
    <<Whole(40), Double(-6, -2)>> :> 450085 @@
    <<Double(-1, -18), Whole(40)>> :> 360000 @@
    <<Whole(40), Double(-1, -18)>> :> 450000

\* test.tsx:71-75: the heading of the ARScreen listener,
\*   angle = Math.atan2(x, y) * (180 / Math.PI);  if (angle < 0) angle += 360;
headingOfARScreen(data) ==
    LET angle == Atan2Degrees[<<data.x, data.y>>]
    IN  IF angle < 0 THEN Atan2DegreesPlus360[<<data.x, data.y>>] ELSE angle

\* MapScreen.tsx:109-112: the heading of the ARPhotoOverlay listener,
\*   angle = Math.atan2(data.y, data.x) * (180 / Math.PI);  if (angle < 0) angle += 360;
headingOfMapScreen(data) ==
    LET angle == Atan2Degrees[<<data.y, data.x>>]
    IN  IF angle < 0 THEN Atan2DegreesPlus360[<<data.y, data.x>>] ELSE angle

\* Both screens mounted: useState(0) for the heading, no sample delivered yet.
InitMagnetometer ==
    /\ InitScreen
    /\ gallery = PhotoGallery(<<>>)
    /\ calc = [op |-> "magnetometer",
               ar |-> [data |-> Null, heading |-> 0],
               map |-> [data |-> Null, heading |-> 0]]

\* test.tsx:70-76: the listener of the ARScreen; setHeading(angle).
ARScreenListener(data) ==
    /\ calc.op = "magnetometer"
    /\ calc' = [calc EXCEPT !.ar = [data |-> data, heading |-> headingOfARScreen(data)]]
    /\ UNCHANGED << screenVars, gallery >>

\* MapScreen.tsx:108-114: the listener of the ARPhotoOverlay; setHeading(angle).
MapScreenListener(data) ==
    /\ calc.op = "magnetometer"
    /\ calc' = [calc EXCEPT !.map = [data |-> data, heading |-> headingOfMapScreen(data)]]
    /\ UNCHANGED << screenVars, gallery >>

NextMagnetometer ==
    \/ \E data \in MagnetometerSamples : ARScreenListener(data)
    \/ \E data \in MagnetometerSamples : MapScreenListener(data)

SpecMagnetometer == InitMagnetometer /\ [][NextMagnetometer]_vars
\* ---------------------------------------------------------- the gallery
\* The PhotoGallery component of screens/GalleryScreen.tsx: the photos near the
\* current location, loaded page by page, and the notifications near a photo.
\* The state of the component is set by the handlers and the awaited calls as they
\* go; what a handler reads is the state of the render it was created in
\* (gallery.rendered, and for the memoised handleEndReached the render in which one
\* of its dependencies last changed).  Times are in minutes.  The cache of asset
\* infos does not enter what the gallery shows and is left out.

\* GalleryScreen.tsx:282: the tolerance of the gallery's isSameLocation, 0.05
\* degrees, in microdegrees.
NEARBY_THRESHOLD == 50000

\* GalleryScreen.tsx:230: the tolerance of checkForPhotoLocationMatch, 0.01 degrees,
\* in microdegrees.
PHOTO_MATCH_THRESHOLD == 10000

\* GalleryScreen.tsx:213: 10 * 60 * 1000 ms, in minutes.
NOTIFICATION_COOLDOWN == 10

\* The assets getAssetsAsync returns at a time (the code asks for 10).
PageSize == 2
\* The longest media library of the gallery.
MaxLibrary == 3
\* The calls of loadMorePhotos awaiting an answer at a time.
MaxLoads == 2
\* The times the list calls onEndReached.
MaxEndReached == 2
\* The last minute of the clock.
MaxTime == 13
\* The minutes that pass between two events.
TimeSteps == {5, 6}

\* The assets in the libraries of the gallery: near the origin (1), at 0.05 degrees
\* and just below 0.05 degrees north of it (6, 7), without location metadata (9).
GalleryAssets == {1, 6, 7, 9}

GalleryLibraries ==
    { lib \in UNION { [1..n -> GalleryAssets] : n \in 0..MaxLibrary } :
        \A i, j \in DOMAIN lib : i # j => lib[i] # lib[j] }

RemoveAt(s, i) == SubSeq(s, 1, i - 1) \o SubSeq(s, i + 1, Len(s))

\* MediaLibrary.getAssetsAsync({first, after}) over a library: the assets after the
\* cursor, first at most; the cursor after the last of them (the cursor given when
\* there is none); whether assets remain.
getAssetsAsync(library, first, after) ==
    LET last == Min(after + first, Len(library))
    IN  [assets |-> SubSeq(library, after + 1, last),
         endCursor |-> last,
         hasNextPage |-> last < Len(library)]

\* GalleryScreen.tsx:264-295: newPhotos, the assets of the page whose info has a
\* location within the tolerance of coords, as Photo.
newPhotos(assets, coords) ==
    LET near == SelectSeq(assets,
                    LAMBDA a : /\ AssetLocation[a] # Null
                               /\ isSameLocation(AssetLocation[a], coords,
                                                 NEARBY_THRESHOLD))
    IN  [i \in DOMAIN near |-> [id |-> near[i], location |-> AssetLocation[near[i]]]]

\* GalleryScreen.tsx:390-408 and 216-219: the component renders with the state as
\* it is; handleEndReached is created anew if currentLocation, hasNextPage or
\* loadingMore changed (a location set is a new object each time), and
\* photoLocationsRef follows the photos rendered.
GalleryRender ==
    /\ gallery.mounted
    /\ gallery.rendered # stateOf(gallery) \/ gallery.locationSet
    /\ gallery' = [gallery EXCEPT
           !.rendered = stateOf(gallery),
           !.locationSet = FALSE,
           !.handleEndReached =
               IF \/ gallery.locationSet
                  \/ gallery.hasNextPage # gallery.rendered.hasNextPage
                  \/ gallery.loadingMore # gallery.rendered.loadingMore
               THEN closureOf(stateOf(gallery))
               ELSE @]
    /\ UNCHANGED << screenVars, calc >>

\* GalleryScreen.tsx:308-324: the permission prompts answered; without the location
\* or the media permission the mount effect returns.  (The notification permission
\* only decides an alert.)
GalleryPermissionsResolved(loc, media) ==
    /\ gallery.mounted /\ gallery.task = "permissions"
    /\ gallery' = [gallery EXCEPT !.task = IF loc /\ media THEN "position" ELSE "returned"]
    /\ UNCHANGED << screenVars, calc >>

\* GalleryScreen.tsx:327-332: getCurrentPositionAsync answered;
\* setCurrentLocation(coords); formatLocation(coords) awaited next.
GalleryPositionResolved(coords) ==
    /\ gallery.mounted /\ gallery.task = "position"
    /\ gallery' = [gallery EXCEPT !.task = "formatLocation",
                                  !.coords = coords,
                                  !.currentLocation = coords,
                                  !.locationSet = TRUE]
    /\ UNCHANGED << screenVars, calc >>

\* GalleryScreen.tsx:327: getCurrentPositionAsync rejected; nothing in the mount
\* effect catches it and the effect ends there.
GalleryPositionFailed ==
    /\ gallery.mounted /\ gallery.task = "position"
    /\ gallery' = [gallery EXCEPT !.task = "rejected"]
    /\ UNCHANGED << screenVars, calc >>

\* GalleryScreen.tsx:246-258: the synchronous head of loadMorePhotos(coords) of a
\* render: the two guards on the state of that render, setLoadingMore(true), and
\* getAssetsAsync asked after the endCursor of that render.
loadMorePhotos(g, closure, coords) ==
    IF (~closure.hasNextPage /\ closure.endCursor # 0) \/ closure.loadingMore
    THEN g
    ELSE [g EXCEPT !.loadingMore = TRUE,
                   !.loads = Append(@, [coords |-> coords, after |-> closure.endCursor,
                                        stage |-> "getAssets", assets |-> <<>>])]

\* GalleryScreen.tsx:332-346: formatLocation answered (it catches its own errors);
\* the location is not among the visitedLocations of the first render (none), so
\* 'Capture the moment?' is sent and the location is appended; the loadMorePhotos
\* of the first render is called with coords and awaited.
GalleryLocationFormatted ==
    /\ gallery.mounted /\ gallery.task = "formatLocation"
    /\ gallery' = loadMorePhotos(
                      [gallery EXCEPT !.task = "firstLoad",
                                      !.arrival = "Capture the moment?",
                                      !.visitedLocations = Append(@, gallery.coords)],
                      closureOf(initialState(gallery.library)),
                      gallery.coords)
    /\ UNCHANGED << screenVars, calc >>

\* GalleryScreen.tsx:379-383: handleEndReached, called by the list that is on the
\* screen once loading is over and there are photos.
GalleryEndReached ==
    /\ gallery.mounted /\ ~gallery.rendered.loading /\ gallery.rendered.photos # <<>>
    /\ Len(gallery.loads) < MaxLoads /\ gallery.endReached < MaxEndReached
    /\ gallery.handleEndReached.currentLocation # Null
    /\ gallery.handleEndReached.hasNextPage
    /\ ~gallery.handleEndReached.loadingMore
    /\ gallery' = loadMorePhotos([gallery EXCEPT !.endReached = @ + 1],
                                 gallery.handleEndReached,
                                 gallery.handleEndReached.currentLocation)
    /\ UNCHANGED << screenVars, calc >>

\* GalleryScreen.tsx:254-262: getAssetsAsync answered; setEndCursor, setHasNextPage;
\* the infos of the assets are asked for next.
GalleryAssetsResolved(i) ==
    /\ gallery.mounted /\ i \in DOMAIN gallery.loads
    /\ gallery.loads[i].stage = "getAssets"
    /\ LET mediaResult == getAssetsAsync(gallery.library, PageSize, gallery.loads[i].after)
       IN  gallery' = [gallery EXCEPT !.endCursor = mediaResult.endCursor,
                                      !.hasNextPage = mediaResult.hasNextPage,
                                      !.loads[i].stage = "getAssetInfo",
                                      !.loads[i].assets = mediaResult.assets]
    /\ UNCHANGED << screenVars, calc >>

\* GalleryScreen.tsx:347: after the first loadMorePhotos, setLoading(false).
afterLoad(g) ==
    IF g.task = "firstLoad" THEN [g EXCEPT !.task = "done", !.loading = FALSE] ELSE g

\* GalleryScreen.tsx:264-301: every getAssetInfoAsync answered; the new photos are
\* appended; finally setLoadingMore(false).
GalleryAssetInfosResolved(i) ==
    /\ gallery.mounted /\ i \in DOMAIN gallery.loads
    /\ gallery.loads[i].stage = "getAssetInfo"
    /\ gallery' = afterLoad(
                      [gallery EXCEPT !.photos = @ \o newPhotos(gallery.loads[i].assets,
                                                                 gallery.loads[i].coords),
                                      !.loadingMore = FALSE,
                                      !.loads = RemoveAt(@, i)])
    /\ UNCHANGED << screenVars, calc >>

\* GalleryScreen.tsx:297-301: getAssetsAsync or a getAssetInfoAsync rejected: the
\* error is logged; finally setLoadingMore(false).
GalleryLoadFailed(i) ==
    /\ gallery.mounted /\ i \in DOMAIN gallery.loads
    /\ gallery' = afterLoad([gallery EXCEPT !.loadingMore = FALSE,
                                            !.loads = RemoveAt(@, i)])
    /\ UNCHANGED << screenVars, calc >>

\* GalleryScreen.tsx:356: watchPositionAsync answered; its subscription is stored,
\* after the cleanup has run if the component has unmounted meanwhile.
GalleryWatchResolved ==
    /\ gallery.watch = "pending"
    /\ gallery' = [gallery EXCEPT !.watch = IF gallery.mounted THEN "active" ELSE "leaked",
                                  !.subscription = "subscription"]
    /\ UNCHANGED << screenVars, calc >>

\* Mutant of checkForPhotoLocationMatch: a notification for each photo within the
\* tolerance, whenever it was last notified.
RECURSIVE checkForPhotoLocationMatchEveryTime(_, _, _, _, _, _)
checkForPhotoLocationMatchEveryTime(photoLocations, i, currentCoords, now, notified, sent) ==
    IF i > Len(photoLocations)
    THEN [notifiedPhotos |-> notified, sent |-> sent]
    ELSE LET photo == photoLocations[i]
         IN  IF isSameLocation(currentCoords, photo.location, PHOTO_MATCH_THRESHOLD)
             THEN checkForPhotoLocationMatchEveryTime(photoLocations, i + 1,
                      currentCoords, now, [notified EXCEPT ![photo.id] = now],
                      Append(sent, [id |-> photo.id, at |-> now]))
             ELSE checkForPhotoLocationMatchEveryTime(photoLocations, i + 1,
                      currentCoords, now, notified, sent)

\* GalleryScreen.tsx:228-238: checkForPhotoLocationMatch(currentCoords) over the
\* photos of photoLocationsRef from place i on: a notification for each photo
\* within the tolerance that was never notified or was notified more than
\* NOTIFICATION_COOLDOWN ago, and the time of it kept in notifiedPhotosRef.
RECURSIVE checkForPhotoLocationMatch(_, _, _, _, _, _)
checkForPhotoLocationMatch(photoLocations, i, currentCoords, now, notified, sent) ==
    IF i > Len(photoLocations)
    THEN [notifiedPhotos |-> notified, sent |-> sent]
    ELSE LET photo == photoLocations[i]
             lastNotified == notified[photo.id]
         IN  IF /\ isSameLocation(currentCoords, photo.location, PHOTO_MATCH_THRESHOLD)
                /\ lastNotified = 0 \/ now - lastNotified > NOTIFICATION_COOLDOWN
             THEN checkForPhotoLocationMatch(photoLocations, i + 1, currentCoords, now,
                      [notified EXCEPT ![photo.id] = now],
                      Append(sent, [id |-> photo.id, at |-> now]))
             ELSE checkForPhotoLocationMatch(photoLocations, i + 1, currentCoords, now,
                                             notified, sent)

\* GalleryScreen.tsx:362-367: the position callback; setCurrentLocation(newCoords)
\* and checkForPhotoLocationMatch(newCoords).  A subscription stored after the
\* cleanup is never removed and its callback goes on checking.
GalleryLocationCallback(newCoords) ==
    /\ \/ gallery.mounted /\ gallery.watch = "active"
       \/ gallery.watch = "leaked"
    /\ LET match == checkForPhotoLocationMatch(gallery.rendered.photos, 1, newCoords,
                        gallery.now, gallery.notifiedPhotos, gallery.sent)
       IN  gallery' = [gallery EXCEPT
               !.currentLocation = IF gallery.mounted THEN newCoords ELSE @,
               !.locationSet = IF gallery.mounted THEN TRUE ELSE @,
               !.notifiedPhotos = match.notifiedPhotos,
               !.sent = match.sent]
    /\ UNCHANGED << screenVars, calc >>

\* Date.now() (GalleryScreen.tsx:232-234) moves on between two events.
GalleryTimePasses(minutes) ==
    /\ gallery.now + minutes <= MaxTime
    /\ gallery' = [gallery EXCEPT !.now = @ + minutes]
    /\ UNCHANGED << screenVars, calc >>

\* GalleryScreen.tsx:370-374: the component unmounts; the cleanup removes the
\* subscription if it is there.  Nothing is shown and no state is set afterwards:
\* the answers still awaited are dropped.
GalleryUnmount ==
    /\ gallery.mounted
    /\ gallery' = [gallery EXCEPT !.mounted = FALSE,
                                  !.task = "unmounted",
                                  !.loads = <<>>,
                                  !.locationSet = FALSE,
                                  !.watch = IF gallery.subscription # "undefined"
                                            THEN "removed" ELSE @]
    /\ UNCHANGED << screenVars, calc >>

InitGallery ==
    /\ InitScreen
    /\ calc = Idle
    /\ gallery \in { PhotoGallery(library) : library \in GalleryLibraries }

NextGallery ==
    \/ GalleryRender
    \/ \E loc, media \in BOOLEAN : GalleryPermissionsResolved(loc, media)
    \/ \E coords \in Positions : GalleryPositionResolved(coords)
    \/ GalleryPositionFailed
    \/ GalleryLocationFormatted
    \/ GalleryEndReached
    \/ \E i \in 1..MaxLoads : GalleryAssetsResolved(i)
    \/ \E i \in 1..MaxLoads : GalleryAssetInfosResolved(i)
    \/ \E i \in 1..MaxLoads : GalleryLoadFailed(i)
    \/ GalleryWatchResolved
    \/ \E newCoords \in Positions : GalleryLocationCallback(newCoords)
    \/ GalleryUnmount

SpecGallery == InitGallery /\ [][NextGallery]_vars

\* The gallery with what it awaits arriving: every prompt is answered, every call
\* awaited is answered or rejected, and the component renders the state it has.
GalleryMountEffectStep ==
    \/ \E loc, media \in BOOLEAN : GalleryPermissionsResolved(loc, media)
    \/ \E coords \in Positions : GalleryPositionResolved(coords)
    \/ GalleryPositionFailed
    \/ GalleryLocationFormatted

GalleryLoadStep ==
    \E i \in 1..MaxLoads :
        GalleryAssetsResolved(i) \/ GalleryAssetInfosResolved(i) \/ GalleryLoadFailed(i)

SpecGalleryFair ==
    /\ InitGallery /\ [][NextGallery]_vars
    /\ WF_vars(GalleryRender)
    /\ WF_vars(GalleryMountEffectStep)
    /\ WF_vars(GalleryLoadStep)
    /\ WF_vars(GalleryWatchResolved)

\* The gallery over one library, with the clock moving on.
ClockLibrary == <<1, 9, 7>>

InitGalleryClock ==
    /\ InitScreen
    /\ calc = Idle
    /\ gallery = PhotoGallery(ClockLibrary)

NextGalleryClock ==
    \/ NextGallery
    \/ \E minutes \in TimeSteps : GalleryTimePasses(minutes)

SpecGalleryClock == InitGalleryClock /\ [][NextGalleryClock]_vars


\* ------------------------------------------ the gallery of photos and videos
\* The PhotoGallery component of screens/test.tsx: photos and videos, each media
\* type with its own cursor and hasNextPage, loaded together page by page.  The
\* component is in gallery as the other gallery is, with the state of the render
\* its handlers read; log is the history of the asset queries: each query of a
\* media type as it is issued and each answer that reports no next page.  The
\* watch effect and its notifications are those of screens/GalleryScreen.tsx.

\* The photo assets and the video assets of the libraries: photos near the origin
\* (1), far from every position (8) and without location metadata (9); videos
\* near the origin (2) and at 0.05 degrees and just below it (6, 7).
MediaPhotoAssets == {1, 8, 9}
MediaVideoAssets == {2, 6, 7}

InjectiveSeqs(S, n) ==
    { s \in UNION { [1..k -> S] : k \in 0..n } :
        \A i, j \in DOMAIN s : i # j => s[i] # s[j] }

\* The media libraries: the two types are not both longer than one page.
MediaLibraries ==
    { lib \in [photo : InjectiveSeqs(MediaPhotoAssets, MaxLibrary),
               video : InjectiveSeqs(MediaVideoAssets, MaxLibrary)] :
        Len(lib.photo) <= PageSize \/ Len(lib.video) <= PageSize }

\* screens/test.tsx:395-408: the state a render of the component reads;
\* hasNextPage = photoHasNextPage || videoHasNextPage.
mediaStateOf(g) ==
    [ currentLocation |-> g.currentLocation, photos |-> g.photos,
      photoCursor |-> g.photoCursor, videoCursor |-> g.videoCursor,
      photoHasNextPage |-> g.photoHasNextPage, videoHasNextPage |-> g.videoHasNextPage,
      hasNextPage |-> g.photoHasNextPage \/ g.videoHasNextPage,
      loading |-> g.loading, loadingMore |-> g.loadingMore ]

\* screens/test.tsx:394-408: the component just mounted and rendered for the first
\* time, the mount effect awaiting the permission prompts.
mediaInitialState(library) ==
    [ mounted |-> TRUE, library |-> library, currentLocation |-> Null, photos |-> <<>>,
      photoCursor |-> 0, videoCursor |-> 0,
      photoHasNextPage |-> TRUE, videoHasNextPage |-> TRUE,
      loading |-> TRUE, loadingMore |-> FALSE ]

MediaGallery(library) ==
    [ mounted |-> TRUE, library |-> library, currentLocation |-> Null, photos |-> <<>>,
      photoCursor |-> 0, videoCursor |-> 0,
      photoHasNextPage |-> TRUE, videoHasNextPage |-> TRUE,
      loading |-> TRUE, loadingMore |-> FALSE,
      rendered |-> mediaStateOf(mediaInitialState(library)),
      handleEndReached |-> mediaStateOf(mediaInitialState(library)),
      locationSet |-> FALSE,
      task |-> "permissions", coords |-> Null,
      loads |-> <<>>, endReached |-> 0, log |-> <<>> ]

\* screens/test.tsx:473-488: a photo asset of the page as Photo: dropped if its
\* location is outside the tolerance of coords, kept at (0, 0) if it has none.
processedPhotos(assets, coords) ==
    LET kept == SelectSeq(assets,
                    LAMBDA a : ~(/\ AssetLocation[a] # Null
                                 /\ ~isSameLocation(AssetLocation[a], coords,
                                                    NEARBY_THRESHOLD)))
    IN  [i \in DOMAIN kept |->
            [id |-> kept[i],
             location |-> IF AssetLocation[kept[i]] # Null THEN AssetLocation[kept[i]]
                          ELSE GeoPoint(0, 0),
             mediaType |-> "photo"]]

\* screens/test.tsx:503-537: a video asset of the page as Photo: only with a
\* location within the tolerance of coords.
processedVideos(assets, coords) ==
    LET near == SelectSeq(assets,
                    LAMBDA a : /\ AssetLocation[a] # Null
                               /\ isSameLocation(AssetLocation[a], coords,
                                                 NEARBY_THRESHOLD))
    IN  [i \in DOMAIN near |->
            [id |-> near[i], location |-> AssetLocation[near[i]], mediaType |-> "video"]]

\* screens/test.tsx:549-553: Array.from(new Map(combined.map(item => [item.id,
\* item])).values()): one item for each id, at the place of the first of that id
\* and with the value of the last.
deduped(combined) ==
    LET firsts == SelectSeq([i \in DOMAIN combined |-> i],
                      LAMBDA i : \A j \in 1..(i - 1) : combined[j].id # combined[i].id)
        lastOf(id) == CHOOSE j \in DOMAIN combined :
                          /\ combined[j].id = id
                          /\ \A k \in DOMAIN combined : combined[k].id = id => k <= j
    IN  [n \in DOMAIN firsts |-> combined[lastOf(combined[firsts[n]].id)]]

\* screens/test.tsx:619-623 and 395-408: the component renders with the state as
\* it is; handleEndReached is created anew if currentLocation, hasNextPage or
\* loadingMore changed.
MediaRender ==
    /\ gallery.mounted
    /\ gallery.rendered # mediaStateOf(gallery) \/ gallery.locationSet
    /\ gallery' = [gallery EXCEPT
           !.rendered = mediaStateOf(gallery),
           !.locationSet = FALSE,
           !.handleEndReached =
               IF \/ gallery.locationSet
                  \/ mediaStateOf(gallery).hasNextPage # gallery.rendered.hasNextPage
                  \/ gallery.loadingMore # gallery.rendered.loadingMore
               THEN mediaStateOf(gallery)
               ELSE @]
    /\ UNCHANGED << screenVars, calc >>

\* screens/test.tsx:565-578: the permission prompts answered; without the location
\* or the media permission the mount effect returns.
MediaPermissionsResolved(loc, media) ==
    /\ gallery.mounted /\ gallery.task = "permissions"
    /\ gallery' = [gallery EXCEPT !.task = IF loc /\ media THEN "position" ELSE "returned"]
    /\ UNCHANGED << screenVars, calc >>

\* screens/test.tsx:579-582: getCurrentPositionAsync answered;
\* setCurrentLocation(coords); formatLocation(coords) awaited next.
MediaPositionResolved(coords) ==
    /\ gallery.mounted /\ gallery.task = "position"
    /\ gallery' = [gallery EXCEPT !.task = "formatLocation", !.coords = coords,
                                  !.currentLocation = coords, !.locationSet = TRUE]
    /\ UNCHANGED << screenVars, calc >>

\* screens/test.tsx:440-449: the synchronous head of loadMorePhotos(coords) of a
\* render: the guard on the loadingMore of that render, setLoadingMore(true), and
\* the photo assets asked after the photoCursor of that render.
mediaLoadMorePhotos(g, closure, coords) ==
    IF closure.loadingMore
    THEN g
    ELSE [g EXCEPT
             !.loadingMore = TRUE,
             !.loads = Append(@, [coords |-> coords, stage |-> "photo",
                                  photoCursor |-> closure.photoCursor,
                                  videoCursor |-> closure.videoCursor,
                                  photoAssets |-> <<>>, videoAssets |-> <<>>]),
             !.log = Append(@, [mediaType |-> "photo", event |-> "query"])]

\* screens/test.tsx:582-591: formatLocation answered; the notification of the
\* arrival is sent and the loadMorePhotos of the first render is called with
\* coords and awaited.
MediaLocationFormatted ==
    /\ gallery.mounted /\ gallery.task = "formatLocation"
    /\ gallery' = mediaLoadMorePhotos([gallery EXCEPT !.task = "firstLoad"],
                                      mediaStateOf(mediaInitialState(gallery.library)),
                                      gallery.coords)
    /\ UNCHANGED << screenVars, calc >>

\* screens/test.tsx:619-623: handleEndReached, called by the list that is on the
\* screen once loading is over and there are photos.
MediaEndReached ==
    /\ gallery.mounted /\ ~gallery.rendered.loading /\ gallery.rendered.photos # <<>>
    /\ Len(gallery.loads) < MaxLoads /\ gallery.endReached < MaxEndReached
    /\ gallery.handleEndReached.currentLocation # Null
    /\ gallery.handleEndReached.hasNextPage
    /\ ~gallery.handleEndReached.loadingMore
    /\ gallery' = mediaLoadMorePhotos([gallery EXCEPT !.endReached = @ + 1],
                                      gallery.handleEndReached,
                                      gallery.handleEndReached.currentLocation)
    /\ UNCHANGED << screenVars, calc >>

\* The answer of a query as an entry of the log, if it reports no next page.
reported(mediaType, result) ==
    IF result.hasNextPage THEN <<>> ELSE << [mediaType |-> mediaType, event |-> "lastPage"] >>

\* screens/test.tsx:445-458: the photo assets answered; setPhotoCursor,
\* setPhotoHasNextPage; the video assets are asked after the videoCursor.
MediaPhotoAssetsResolved(i) ==
    /\ gallery.mounted /\ i \in DOMAIN gallery.loads
    /\ gallery.loads[i].stage = "photo"
    /\ LET photoResult == getAssetsAsync(gallery.library.photo, PageSize,
                                         gallery.loads[i].photoCursor)
       IN  gallery' = [gallery EXCEPT
               !.photoCursor = photoResult.endCursor,
               !.photoHasNextPage = photoResult.hasNextPage,
               !.loads[i].stage = "video",
               !.loads[i].photoAssets = photoResult.assets,
               !.log = @ \o reported("photo", photoResult)
                         \o << [mediaType |-> "video", event |-> "query"] >>]
    /\ UNCHANGED << screenVars, calc >>

\* screens/test.tsx:454-461: the video assets answered; setVideoCursor,
\* setVideoHasNextPage; the infos of the assets are asked for next.
MediaVideoAssetsResolved(i) ==
    /\ gallery.mounted /\ i \in DOMAIN gallery.loads
    /\ gallery.loads[i].stage = "video"
    /\ LET videoResult == getAssetsAsync(gallery.library.video, PageSize,
                                         gallery.loads[i].videoCursor)
       IN  gallery' = [gallery EXCEPT
               !.videoCursor = videoResult.endCursor,
               !.videoHasNextPage = videoResult.hasNextPage,
               !.loads[i].stage = "getAssetInfo",
               !.loads[i].videoAssets = videoResult.assets,
               !.log = @ \o reported("video", videoResult)]
    /\ UNCHANGED << screenVars, calc >>

\* screens/test.tsx:591: after the first loadMorePhotos, setLoading(false).
mediaAfterLoad(g) ==
    IF g.task = "firstLoad" THEN [g EXCEPT !.task = "done", !.loading = FALSE] ELSE g

\* screens/test.tsx:463-559: the infos answered; the photos and the videos of the
\* page are merged into photos, one item for each id; finally
\* setLoadingMore(false).
MediaAssetInfosResolved(i) ==
    /\ gallery.mounted /\ i \in DOMAIN gallery.loads
    /\ gallery.loads[i].stage = "getAssetInfo"
    /\ LET load == gallery.loads[i]
           mergedMedia == processedPhotos(load.photoAssets, load.coords)
                            \o processedVideos(load.videoAssets, load.coords)
       IN  gallery' = mediaAfterLoad(
                          [gallery EXCEPT !.photos = deduped(@ \o mergedMedia),
                                          !.loadingMore = FALSE,
                                          !.loads = RemoveAt(@, i)])
    /\ UNCHANGED << screenVars, calc >>

\* screens/test.tsx:555-559: a query or an info lookup rejected: the error is
\* logged; finally setLoadingMore(false).
MediaLoadFailed(i) ==
    /\ gallery.mounted /\ i \in DOMAIN gallery.loads
    /\ gallery' = mediaAfterLoad([gallery EXCEPT !.loadingMore = FALSE,
                                                 !.loads = RemoveAt(@, i)])
    /\ UNCHANGED << screenVars, calc >>

\* The component unmounts.  Nothing is shown and no state is set afterwards: the
\* answers still awaited are dropped.
MediaUnmount ==
    /\ gallery.mounted
    /\ gallery' = [gallery EXCEPT !.mounted = FALSE, !.task = "unmounted",
                                  !.loads = <<>>, !.locationSet = FALSE]
    /\ UNCHANGED << screenVars, calc >>

InitMediaGallery ==
    /\ InitScreen
    /\ calc = Idle
    /\ gallery \in { MediaGallery(library) : library \in MediaLibraries }

NextMediaGallery ==
    \/ MediaRender
    \/ \E loc, media \in BOOLEAN : MediaPermissionsResolved(loc, media)
    \/ \E coords \in Positions : MediaPositionResolved(coords)
    \/ MediaLocationFormatted
    \/ MediaEndReached
    \/ \E i \in 1..MaxLoads : MediaPhotoAssetsResolved(i)
    \/ \E i \in 1..MaxLoads : MediaVideoAssetsResolved(i)
    \/ \E i \in 1..MaxLoads : MediaAssetInfosResolved(i)
    \/ \E i \in 1..MaxLoads : MediaLoadFailed(i)
    \/ MediaUnmount

SpecMediaGallery == InitMediaGallery /\ [][NextMediaGallery]_vars

\* ------------------------------------------------ the gallery of arrivals
\* The PhotoGallery component of part_003: one effect, with visitedLocations as its
\* dependency, that asks for the permissions and the position, sends the
\* notification of the arrival, records the location and loads the photos near
\* it.  The component is in gallery; runs are the runs of the effect still
\* awaiting an answer, each with the visitedLocations of the render it was
\* started in; notifications is the history of the notifications sent, started
\* the number of runs of the effect so far.

\* part_003:46: the tolerance of the visited locations, 0.01 degrees, in
\* microdegrees.
VISITED_THRESHOLD == 10000

\* part_003:57: first: 50, the assets asked for.
RECENT_PHOTOS == 50

\* part_003:24-25: a run of the effect, started in a render with visitedLocations.
effectRun(visitedLocations) ==
    [stage |-> "permissions", visitedLocations |-> visitedLocations,
     coords |-> Null, assets |-> <<>>]

\* part_003:20-24: the component just mounted and rendered, the effect started.
ArrivalGallery(library) ==
    [ mounted |-> TRUE, library |-> library, currentLocation |-> Null, photos |-> <<>>,
      visitedLocations |-> <<>>,
      rendered |-> [visitedLocations |-> <<>>],
      runs |-> << effectRun(<<>>) >>,
      notifications |-> <<>>,
      started |-> 1 ]

\* part_003:86: the component renders after setVisitedLocations; the dependency
\* of the effect has changed and the effect runs again, the earlier runs going on.
ArrivalRender ==
    /\ gallery.mounted
    /\ gallery.rendered.visitedLocations # gallery.visitedLocations
    /\ gallery' = [gallery EXCEPT
           !.rendered = [visitedLocations |-> gallery.visitedLocations],
           !.runs = Append(@, effectRun(gallery.visitedLocations)),
           !.started = @ + 1]
    /\ UNCHANGED << screenVars, calc >>

\* part_003:27-38: the permission prompts answered; without the location or the
\* media permission the run returns.
ArrivalPermissionsResolved(i, loc, media) ==
    /\ gallery.mounted /\ i \in DOMAIN gallery.runs
    /\ gallery.runs[i].stage = "permissions"
    /\ gallery' = IF loc /\ media
                  THEN [gallery EXCEPT !.runs[i].stage = "position"]
                  ELSE [gallery EXCEPT !.runs = RemoveAt(@, i)]
    /\ UNCHANGED << screenVars, calc >>

\* part_003:46: alreadyVisited, over the visitedLocations of the run's render.
alreadyVisited(visitedLocations, coords) ==
    \E n \in DOMAIN visitedLocations :
        isSameLocation(visitedLocations[n], coords, VISITED_THRESHOLD)

\* part_003:41-58: getCurrentPositionAsync answered; setCurrentLocation(coords);
\* 'Remember this moment?' if the location was visited, else 'Capture the
\* moment?' and the location appended to visitedLocations; the assets are asked
\* for next.
ArrivalPositionResolved(i, coords) ==
    /\ gallery.mounted /\ i \in DOMAIN gallery.runs
    /\ gallery.runs[i].stage = "position"
    /\ LET visited == alreadyVisited(gallery.runs[i].visitedLocations, coords)
       IN  gallery' = [gallery EXCEPT
               !.currentLocation = coords,
               !.notifications =
                   Append(@, [message |-> IF visited THEN "Remember this moment?"
                                          ELSE "Capture the moment?",
                              coords |-> coords]),
               !.visitedLocations = IF visited THEN @ ELSE Append(@, coords),
               !.runs[i].stage = "getAssets",
               !.runs[i].coords = coords]
    /\ UNCHANGED << screenVars, calc >>

\* part_003:55-62: getAssetsAsync answered with the first assets of the library;
\* their infos are asked for next.
ArrivalAssetsResolved(i) ==
    /\ gallery.mounted /\ i \in DOMAIN gallery.runs
    /\ gallery.runs[i].stage = "getAssets"
    /\ gallery' = [gallery EXCEPT
           !.runs[i].stage = "getAssetInfo",
           !.runs[i].assets = getAssetsAsync(gallery.library, RECENT_PHOTOS, 0).assets]
    /\ UNCHANGED << screenVars, calc >>

\* part_003:61-84: every getAssetInfoAsync answered; the photos are set to the
\* located assets within the tolerance of the run's coords, and the run ends.
ArrivalAssetInfosResolved(i) ==
    /\ gallery.mounted /\ i \in DOMAIN gallery.runs
    /\ gallery.runs[i].stage = "getAssetInfo"
    /\ gallery' = [gallery EXCEPT
           !.photos = newPhotos(gallery.runs[i].assets, gallery.runs[i].coords),
           !.runs = RemoveAt(@, i)]
    /\ UNCHANGED << screenVars, calc >>

\* part_003:25-85: an awaited call of the run rejected; nothing catches it and the
\* run ends there.
ArrivalRunFailed(i) ==
    /\ gallery.mounted /\ i \in DOMAIN gallery.runs
    /\ gallery' = [gallery EXCEPT !.runs = RemoveAt(@, i)]
    /\ UNCHANGED << screenVars, calc >>

\* The component unmounts (the effect has no cleanup).  Nothing is shown and no
\* state is set afterwards: the answers still awaited are dropped.
ArrivalUnmount ==
    /\ gallery.mounted
    /\ gallery' = [gallery EXCEPT !.mounted = FALSE, !.runs = <<>>]
    /\ UNCHANGED << screenVars, calc >>

\* The runs of the effect at a time: each run but the first follows a location
\* appended to visitedLocations, and a location matching one appended is not
\* appended again.
MaxRuns == 4

InitArrival ==
    /\ InitScreen
    /\ calc = Idle
    /\ gallery \in { ArrivalGallery(library) : library \in GalleryLibraries }

NextArrival ==
    \/ ArrivalRender
    \/ \E i \in 1..MaxRuns, loc, media \in BOOLEAN : ArrivalPermissionsResolved(i, loc, media)
    \/ \E i \in 1..MaxRuns, coords \in Positions : ArrivalPositionResolved(i, coords)
    \/ \E i \in 1..MaxRuns : ArrivalAssetsResolved(i)
    \/ \E i \in 1..MaxRuns : ArrivalAssetInfosResolved(i)
    \/ \E i \in 1..MaxRuns : ArrivalRunFailed(i)
    \/ ArrivalUnmount

SpecArrival == InitArrival /\ [][NextArrival]_vars

TypeOK ==
    /\ mounted \in BOOLEAN
    /\ location \in Positions \cup {Null}
    /\ heading \in HeadingValues
    /\ Len(photos) <= MaxPhotos
    /\ permissionsTask \in {"permissions", "position", "assets", "done"}
    /\ headingWatch \in {"pending", "active", "removed"}
    /\ locationWatch \in {"pending", "active", "removed"}
    /\ lateCallbacks \in 0..MaxLateCallbacks

\* ------------------------------------------------------ claims: vocabulary

\* The AR view is on the screen and a position is known.
ArShown == mounted /\ screen.view = "ar" /\ location # Null

\* The ids of the photos drawn as overlay markers / listed in the close-by strip.
OverlayIds == { screen.markers[i].id : i \in DOMAIN screen.markers }
CloseByIds == { screen.closeBy[i].id : i \in DOMAIN screen.closeBy }

\* Of a photo and the current position: the distance, the signed angle between the
\* photo's bearing and the heading, and whether both coordinates lie within the
\* tolerance of the position's.
DistanceTo(photo) ==
    computeDistance(location.latitude, location.longitude, photo.latitude, photo.longitude)
OffsetOf(photo) ==
    angleDiff(computeBearing(location.latitude, location.longitude,
                             photo.latitude, photo.longitude), heading)
WithinTolerance(photo) ==
    /\ Abs(photo.latitude - location.latitude) < LOCATION_THRESHOLD
    /\ Abs(photo.longitude - location.longitude) < LOCATION_THRESHOLD

HalfFov == Degrees(CAMERA_HORIZONTAL_FOV) \div 2
Threshold == Metres(CLOSE_BY_DISTANCE)

\* A far candidate: the pre-filter passed and the distance is at least the threshold.
FarCandidate(photo) == WithinTolerance(photo) /\ DistanceTo(photo) >= Threshold

\* ------------------------------------------------------------------- C1
\* C1 (as claimed): a candidate whose latitude or longitude differs from the
\* current position by at least the tolerance is neither among the overlay markers
\* nor in the close-by strip.
C1_RejectedEntirely ==
    ArShown =>
        \A i \in DOMAIN photos :
            ~WithinTolerance(photos[i]) =>
                /\ photos[i].id \notin OverlayIds
                /\ photos[i].id \notin CloseByIds

\* ------------------------------------------------------------------- C2
\* C2 (as claimed): for every bearing and heading in [0, 360) the angular offset
\* lies in (-180, 180].
C2_OffsetAboveMinus180UpTo180 ==
    calc.op = "angleDiff" /\ calc.done =>
        calc.result > Degrees(-180) /\ calc.result <= Degrees(180)

\* C2 (amended): for every bearing and heading in [0, 360) the angular offset lies in
\* [-180, 180): it can be -180 and is never 180.
C2_OffsetFromMinus180Below180 ==
    calc.op = "angleDiff" /\ calc.done =>
        calc.result >= Degrees(-180) /\ calc.result < Degrees(180)

\* A target straight behind (bearing 0, heading 180): the offset computed is -180.
C2_Witness ==
    /\ calc.op = "angleDiff" /\ calc.done
    /\ calc.bearing = 0 /\ calc.heading = Degrees(180)
    /\ calc.result = Degrees(-180)

\* On the screen too, the offset of every photo from the current position and
\* heading lies in [-180, 180).
OffsetsOnScreenInRange ==
    location # Null =>
        \A i \in DOMAIN photos :
            /\ OffsetOf(photos[i]) >= Degrees(-180)
            /\ OffsetOf(photos[i]) < Degrees(180)

\* ------------------------------------------------------------------- C3
\* C3: every far candidate has no overlay marker exactly when the absolute value of
\* its angular offset exceeds FOV/2, and has one otherwise.
C3_FarHiddenIffOutsideFov ==
    ArShown =>
        \A i \in DOMAIN photos :
            FarCandidate(photos[i]) =>
                (photos[i].id \notin OverlayIds <=> Abs(OffsetOf(photos[i])) > HalfFov)

\* Bearing 90, heading 0: a far candidate at offset 90 without a marker, beside a
\* far candidate dead ahead with one.
C3_Witness ==
    /\ ArShown
    /\ heading = 0
    /\ \E i \in DOMAIN photos :
        /\ FarCandidate(photos[i])
        /\ OffsetOf(photos[i]) = Degrees(90)
        /\ photos[i].id \notin OverlayIds
    /\ \E i \in DOMAIN photos :
        /\ FarCandidate(photos[i])
        /\ OffsetOf(photos[i]) = 0
        /\ photos[i].id \in OverlayIds

\* ------------------------------------------------------------------- C4
\* C4 (as claimed): a far candidate whose angular offset is exactly FOV/2 or
\* -FOV/2 has no overlay marker.
C4_BoundaryHidden ==
    ArShown =>
        \A i \in DOMAIN photos :
            (FarCandidate(photos[i]) /\ Abs(OffsetOf(photos[i])) = HalfFov) =>
                photos[i].id \notin OverlayIds

\* C4 (amended): a far candidate whose angular offset is exactly FOV/2 or -FOV/2 is
\* FAR_VISIBLE: an overlay marker is produced for it, at the left or the right edge.
C4_BoundaryVisible ==
    ArShown =>
        \A i \in DOMAIN photos :
            (FarCandidate(photos[i]) /\ Abs(OffsetOf(photos[i])) = HalfFov) =>
                \E k \in DOMAIN screen.markers :
                    /\ screen.markers[k].id = photos[i].id
                    /\ screen.markers[k].left \in
                           { -Pixels(25), Pixels(SCREEN_WIDTH) - Pixels(25) }

\* A far candidate at offset exactly +30 degrees, drawn.
C4_Witness ==
    /\ ArShown
    /\ \E i \in DOMAIN photos :
        /\ FarCandidate(photos[i])
        /\ OffsetOf(photos[i]) = HalfFov
        /\ photos[i].id \in OverlayIds

\* ------------------------------------------------------------------- C5
\* C5: a photo is in the close-by strip exactly when its distance is strictly below
\* the threshold, and then it has no overlay marker; a candidate at distance exactly
\* the threshold is not in the strip and has a marker exactly when it is within the
\* field of view.
C5_NearIffBelowThreshold ==
    ArShown =>
        \A i \in DOMAIN photos :
            /\ photos[i].id \in CloseByIds <=> DistanceTo(photos[i]) < Threshold
            /\ photos[i].id \in CloseByIds => photos[i].id \notin OverlayIds
            /\ (WithinTolerance(photos[i]) /\ DistanceTo(photos[i]) = Threshold) =>
                   (photos[i].id \in OverlayIds <=> Abs(OffsetOf(photos[i])) <= HalfFov)

\* A candidate at exactly 25 m, dead ahead: not in the strip, drawn as a marker,
\* beside a candidate below 25 m that is in the strip.
C5_Witness ==
    /\ ArShown
    /\ \E i \in DOMAIN photos :
        /\ DistanceTo(photos[i]) = Threshold
        /\ photos[i].id \notin CloseByIds
        /\ photos[i].id \in OverlayIds
    /\ \E i \in DOMAIN photos :
        /\ DistanceTo(photos[i]) < Threshold
        /\ photos[i].id \in CloseByIds

\* ------------------------------------------------------------------- C6
\* The three classes of a candidate, read off the screen.
Near(photo) == photo.id \in CloseByIds
FarVisible(photo) == photo.id \in OverlayIds
FarHidden(photo) ==
    /\ photo.id \notin CloseByIds
    /\ photo.id \notin OverlayIds
    /\ DistanceTo(photo) >= Threshold
    /\ Abs(OffsetOf(photo)) > HalfFov

\* C6: no photo is both in the close-by strip and drawn as an overlay marker, and
\* every candidate that passes the pre-filter is exactly one of NEAR, FAR_VISIBLE
\* and FAR_HIDDEN.
C6_StripAndOverlayDisjoint ==
    /\ OverlayIds \cap CloseByIds = {}
    /\ ArShown =>
        \A i \in DOMAIN photos :
            WithinTolerance(photos[i]) =>
                Cardinality({ c \in {"NEAR", "FAR_VISIBLE", "FAR_HIDDEN"} :
                                \/ c = "NEAR" /\ Near(photos[i])
                                \/ c = "FAR_VISIBLE" /\ FarVisible(photos[i])
                                \/ c = "FAR_HIDDEN" /\ FarHidden(photos[i]) }) = 1

\* A near photo in the strip and a far photo drawn, on the same screen.
C6_Witness ==
    /\ ArShown
    /\ \E i, j \in DOMAIN photos :
        /\ WithinTolerance(photos[i]) /\ Near(photos[i])
        /\ WithinTolerance(photos[j]) /\ FarVisible(photos[j])

\* ------------------------------------------------------------------- C7
\* C7 (as claimed): the close-by strip is ordered by ascending distance from the
\* current position, ties broken by id.
C7_StripSortedByDistance ==
    ArShown =>
        \A k, l \in DOMAIN screen.closeBy :
            k < l =>
                \/ DistanceTo(screen.closeBy[k]) < DistanceTo(screen.closeBy[l])
                \/ /\ DistanceTo(screen.closeBy[k]) = DistanceTo(screen.closeBy[l])
                   /\ screen.closeBy[k].id < screen.closeBy[l].id

\* The place of the photo with this id in photos (ids are unique in a library).
PlaceOf(id) == CHOOSE i \in DOMAIN photos : photos[i].id = id

\* C7 (amended): the close-by strip keeps the order of the photo list: of two photos
\* in the strip, the one earlier in photos comes first, whatever their distances.
C7_StripInPhotoOrder ==
    ArShown =>
        \A k, l \in DOMAIN screen.closeBy :
            k < l => PlaceOf(screen.closeBy[k].id) < PlaceOf(screen.closeBy[l].id)

\* A strip of two photos of which the first is the farther one.
C7_Witness ==
    /\ ArShown
    /\ Len(screen.closeBy) = 2
    /\ DistanceTo(screen.closeBy[1]) > DistanceTo(screen.closeBy[2])

\* ------------------------------------------------------------------- C8
\* C8: the overlay markers keep the relative order of the photo list: of two photos
\* with a marker, the one earlier in photos has the earlier marker.
C8_OverlayInPhotoOrder ==
    ArShown =>
        \A k, l \in DOMAIN screen.markers :
            k < l => PlaceOf(screen.markers[k].id) < PlaceOf(screen.markers[l].id)

\* Two markers of which the first belongs to the nearer photo: the order is that
\* of photos, not farthest-first.
C8_Witness ==
    /\ ArShown
    /\ Len(screen.markers) = 2
    /\ DistanceTo(photos[PlaceOf(screen.markers[1].id)])
           < DistanceTo(photos[PlaceOf(screen.markers[2].id)])

\* ------------------------------------------------------------------- C9
\* C9: after any sequence of position and heading updates the screen of the mounted
\* component is the render of the most recently delivered position and the most
\* recently delivered heading: the markers and the strip are those computed from
\* them, none from an older sample.
C9_ScreenFromLatestSamples ==
    mounted =>
        /\ screen = Render(hasPermissions, lastPosition, lastHeading, photos)
        /\ screen.view = "ar" =>
            /\ screen.markers =
                   SelectSeq(renderMarkers(lastPosition, lastHeading, photos),
                             LAMBDA m : m # Null)
            /\ screen.closeBy = closeByPhotos(lastPosition, photos)

\* Markers on the screen after a heading callback (the heading is no longer the
\* initial 0) and a position callback.
C9_Witness ==
    /\ ArShown
    /\ Len(screen.markers) > 0
    /\ lastHeading # 0
    /\ locationWatch = "active"
    /\ lastPosition = GeoPoint(450, 0)

\* ------------------------------------------------------------------ C10
\* C10 (as claimed): once the cleanups of the effects have run, no heading callback
\* and no position callback runs.
C10_NoCallbackAfterTeardown ==
    ~mounted => lateCallbacks = 0

\* ------------------------------------------------------------------ C11
\* C11 (as claimed): after any sequence of heading samples the heading stored is at
\* least 0 and below 360, on the platform path (magHeading ?? trueHeading) and on
\* the raw magnetometer path of both screens.
C11_HeadingInRange ==
    /\ heading >= 0 /\ heading < Degrees(360)
    /\ calc.op = "magnetometer" =>
        /\ calc.ar.heading >= 0 /\ calc.ar.heading < Degrees(360)
        /\ calc.map.heading >= 0 /\ calc.map.heading < Degrees(360)

\* On the platform path alone the heading stored is in [0, 360): the callback
\* stores magHeading, and trueHeading (-1 when unavailable) only without one.
PlatformHeadingInRange ==
    /\ heading >= 0 /\ heading < Degrees(360)
    /\ lastHeading >= 0 /\ lastHeading < Degrees(360)

\* ------------------------------------------------------------------ C12
\* C12: for every heading and bearing in [0, 360) the angular offset is congruent to
\* bearing - heading modulo 360 and no other representative of that class is nearer
\* to zero; heading 0, bearing 350 gives -10 and heading 350, bearing 10 gives +20.
C12_OffsetNearestRepresentative ==
    calc.op = "angleDiff" /\ calc.done =>
        /\ (calc.result - (calc.bearing - calc.heading)) % Degrees(360) = 0
        /\ \A k \in {-2, -1, 1, 2} :
               Abs(calc.result) <= Abs(calc.result + k * Degrees(360))
        /\ (calc.heading = 0 /\ calc.bearing = Degrees(350)) =>
               calc.result = Degrees(-10)
        /\ (calc.heading = Degrees(350) /\ calc.bearing = Degrees(10)) =>
               calc.result = Degrees(20)

\* Heading 350, bearing 10: the target just across the 0/360 boundary, offset +20.
C12_Witness ==
    /\ calc.op = "angleDiff" /\ calc.done
    /\ calc.heading = Degrees(350) /\ calc.bearing = Degrees(10)
    /\ calc.result = Degrees(20)

\* ------------------------------------------------------------------ C13
\* The photo a marker on the screen belongs to.
PhotoOf(marker) == photos[PlaceOf(marker.id)]

\* C13: the left coordinate of every overlay marker is
\* ((offset + FOV/2) / FOV) * viewport width - 25, the offset running from -FOV/2 at
\* the left edge to FOV/2 at the right; a marker dead ahead (offset 0) is at
\* viewport width / 2 - 25.
C13_MarkerScreenX ==
    ArShown =>
        \A k \in DOMAIN screen.markers :
            LET offset == OffsetOf(PhotoOf(screen.markers[k]))
                left == screen.markers[k].left
            IN  /\ (left + Pixels(25)) * CAMERA_HORIZONTAL_FOV
                       = (offset + HalfFov) * SCREEN_WIDTH
                /\ offset = 0 => left = Pixels(SCREEN_WIDTH) \div 2 - Pixels(25)
                /\ left >= -Pixels(25) /\ left <= Pixels(SCREEN_WIDTH) - Pixels(25)

\* A marker dead ahead, its left edge 25 left of the middle of the 360 wide
\* viewport.
C13_Witness ==
    /\ ArShown
    /\ \E k \in DOMAIN screen.markers :
        /\ OffsetOf(PhotoOf(screen.markers[k])) = 0
        /\ screen.markers[k].left = Pixels(155)

\* A marker 10 degrees right of the middle (heading 350, photo due north): its left
\* edge at (40 / 60) * 360 - 25 = 215.
MarkerOffCentre ==
    /\ ArShown
    /\ \E k \in DOMAIN screen.markers :
        /\ OffsetOf(PhotoOf(screen.markers[k])) = Degrees(10)
        /\ screen.markers[k].left = Pixels(215)

\* ------------------------------------------------------------------ C14
\* C14: the scale of every overlay marker is min(1.5, 50 / max(distance, 1)) (here
\* in thousandths, rounded down): above 0, at most 1.5, and of two markers the
\* farther one never has the larger scale.
C14_ScaleCappedAndDecreasing ==
    ArShown =>
        /\ \A k \in DOMAIN screen.markers :
            LET d == DistanceTo(PhotoOf(screen.markers[k]))
                scale == screen.markers[k].scale
            IN  /\ scale > 0
                /\ scale <= 1500
                /\ scale * Max(d, Metres(1)) <= 50 * 1000 * 100
                /\ scale < 1500 => (scale + 1) * Max(d, Metres(1)) > 50 * 1000 * 100
        /\ \A k, l \in DOMAIN screen.markers :
            DistanceTo(PhotoOf(screen.markers[k])) <= DistanceTo(PhotoOf(screen.markers[l]))
                => screen.markers[k].scale >= screen.markers[l].scale

\* Two markers on one screen: the photo at exactly 25 m at the cap (50 / 25 = 2 is
\* cut to 1.5) and a photo farther than 100 m below 0.5.
C14_Witness ==
    /\ ArShown
    /\ \E k, l \in DOMAIN screen.markers :
        /\ DistanceTo(PhotoOf(screen.markers[k])) = Metres(25)
        /\ screen.markers[k].scale = 1500
        /\ DistanceTo(PhotoOf(screen.markers[l])) > Metres(100)
        /\ screen.markers[l].scale < 500

\* ------------------------------------------------------------------ C15
\* C15: a heading update never changes the close-by strip, the strip is the same for
\* every heading value at the current position and photos, and a photo at a distance
\* below the threshold is in it whatever its bearing.
C15_HeadingLeavesStrip ==
    /\ [][ \A headingData \in HeadingSamples :
               HeadingCallback(headingData) => screen'.closeBy = screen.closeBy ]_vars
    /\ [](ArShown =>
            /\ \A hd \in HeadingValues :
                   Render(hasPermissions, location, hd, photos).closeBy = screen.closeBy
            /\ \A i \in DOMAIN photos :
                   DistanceTo(photos[i]) < Threshold => photos[i].id \in CloseByIds)

\* A photo in the strip that lies behind the device (offset 180: heading 180, the
\* photo due north), after a heading callback.
C15_Witness ==
    /\ ArShown
    /\ headingWatch = "active"
    /\ lastHeading = Degrees(180)
    /\ \E i \in DOMAIN photos :
        /\ photos[i].id \in CloseByIds
        /\ OffsetOf(photos[i]) = Degrees(-180)

\* ------------------------------------------------------------------ C16
\* C16: the overlay and the close-by strip on the screen are a function of the
\* permissions, position, heading and photo list alone: whatever updates came
\* before, the screen is the projection of the current four, so two computations
\* from the same four give the same lists; and a step that leaves the four as they
\* were (a sample delivered again) leaves both lists as they were.
C16_ProjectionOfInputsAlone ==
    /\ [](mounted =>
            /\ screen.markers = Render(hasPermissions, location, heading, photos).markers
            /\ screen.closeBy = Render(hasPermissions, location, heading, photos).closeBy)
    /\ [][ ( /\ mounted /\ mounted'
             /\ hasPermissions' = hasPermissions
             /\ location' = location
             /\ heading' = heading
             /\ photos' = photos )
           => (screen'.markers = screen.markers /\ screen'.closeBy = screen.closeBy) ]_vars

\* Heading 0 at the origin with the load over and both watches delivering samples
\* (the state recurs after every excursion to another heading or position), a
\* marker and a close-by photo on the screen.
C16_Witness ==
    /\ ArShown
    /\ permissionsTask = "done"
    /\ headingWatch = "active" /\ locationWatch = "active"
    /\ heading = 0 /\ location = GeoPoint(0, 0)
    /\ Len(screen.markers) = 1 /\ Len(screen.closeBy) = 1

\* ------------------------------------------------------------------ C17
\* C17: once the load is complete the photos of the AR screen are the loaded assets
\* that have location metadata, in their order and with that location; an asset
\* without one is left out and the load completes all the same.
C17_OnlyLocatedAssets ==
    /\ \A i \in DOMAIN photos : AssetLocation[photos[i].id] # Null
    /\ (mounted /\ loadedAssets # Null) =>
        /\ permissionsTask = "done"
        /\ [i \in DOMAIN photos |-> photos[i].id]
               = SelectSeq(loadedAssets.assets, LAMBDA a : AssetLocation[a] # Null)
        /\ \A i \in DOMAIN photos :
               GeoPoint(photos[i].latitude, photos[i].longitude)
                   = AssetLocation[photos[i].id]

\* The load of a library of an asset without location metadata and an asset with
\* it is complete: one photo, and the AR view (not an error) on the screen.
C17_Witness ==
    /\ ArShown
    /\ permissionsTask = "done"
    /\ loadedAssets # Null
    /\ Len(loadedAssets.assets) = 2
    /\ \E i \in DOMAIN loadedAssets.assets :
           AssetLocation[loadedAssets.assets[i]] = Null
    /\ Len(photos) = 1

\* ------------------------------------------------------------------ C18
\* The items the gallery shows: the photos rendered, once loading is over.
GalleryShown ==
    IF gallery.mounted /\ ~gallery.rendered.loading THEN gallery.rendered.photos ELSE <<>>

\* C18 (as claimed): at every moment each item shown in the gallery has location
\* metadata that differs from the current location by less than 0.05 degrees in
\* latitude and in longitude.
C18_ShownNearCurrentLocation ==
    \A i \in DOMAIN GalleryShown :
        /\ AssetLocation[GalleryShown[i].id] # Null
        /\ gallery.currentLocation # Null
        /\ isSameLocation(GalleryShown[i].location, gallery.currentLocation,
                          NEARBY_THRESHOLD)

\* Each item shown was within the tolerance of the position its page was loaded
\* for, which is one of the positions delivered.
ShownNearSomePosition ==
    \A i \in DOMAIN GalleryShown :
        \E coords \in Positions :
            isSameLocation(GalleryShown[i].location, coords, NEARBY_THRESHOLD)

\* ------------------------------------------------------------------ C19
\* The heading atan2(x, y) in degrees normalised into [0, 360), for the samples of
\* a field along an axis or a diagonal.
CompassHeading(data) ==
    CASE data.x = Whole(0) /\ data.y.m > 0 -> Degrees(0)
      [] data.x.m > 0 /\ data.y = Whole(0) -> Degrees(90)
      [] data.x = Whole(0) /\ data.y.m < 0 -> Degrees(180)
      [] data.x.m < 0 /\ data.y = Whole(0) -> Degrees(270)
      [] data.x.e = 0 /\ data.x.m > 0 /\ data.y = data.x -> Degrees(45)
      [] data.x.e = 0 /\ data.x.m > 0 /\ data.y = Whole(-data.x.m) -> Degrees(135)
      [] data.x.e = 0 /\ data.x.m < 0 /\ data.y = data.x -> Degrees(225)
      [] data.x.e = 0 /\ data.x.m < 0 /\ data.y = Whole(-data.x.m) -> Degrees(315)

OnAxisOrDiagonal(data) ==
    /\ data.x.e = 0 /\ data.y.e = 0
    /\ \/ data.x.m = 0 \/ data.y.m = 0
       \/ data.x.m = data.y.m \/ data.x.m = -data.y.m

\* C19 (as claimed): the heading each magnetometer screen stores for a sample
\* (x, y) is atan2(x, y) in degrees normalised into [0, 360), a field along +y
\* giving 0 and a field along +x giving 90, and the screens store the same heading
\* for the same sample.
C19_SameHeadingOnEveryScreen ==
    calc.op = "magnetometer" =>
        /\ (calc.ar.data # Null /\ OnAxisOrDiagonal(calc.ar.data)) =>
               calc.ar.heading = CompassHeading(calc.ar.data)
        /\ (calc.map.data # Null /\ OnAxisOrDiagonal(calc.map.data)) =>
               calc.map.heading = CompassHeading(calc.map.data)
        /\ (calc.ar.data # Null /\ calc.ar.data = calc.map.data) =>
               calc.ar.heading = calc.map.heading

\* On the ARScreen of screens/test.tsx alone the heading of a field along an axis
\* or a diagonal is the compass heading: +y gives 0, +x gives 90.
ARScreenCompassHeading ==
    (calc.op = "magnetometer" /\ calc.ar.data # Null
        /\ OnAxisOrDiagonal(calc.ar.data)) =>
            calc.ar.heading = CompassHeading(calc.ar.data)

\* ------------------------------------------------------------------ C20
\* C20: the bearing computeBearing returns from the current position to a photo is
\* at least 0 and below 360, and differs from the atan2 angle (in [-180, 180]) by 0
\* or by 360.
C20_BearingNormalised ==
    location # Null =>
        \A i \in DOMAIN photos :
            LET b == computeBearing(location.latitude, location.longitude,
                                    photos[i].latitude, photos[i].longitude)
                angle == AzimuthMilliDeg[<< location.latitude, location.longitude,
                                            photos[i].latitude, photos[i].longitude >>]
            IN  /\ angle >= Degrees(-180) /\ angle <= Degrees(180)
                /\ b >= 0 /\ b < Degrees(360)
                /\ b = angle \/ b = angle + Degrees(360)

\* A photo due west of the current position (atan2 angle -90, bearing 270) beside
\* a photo due north of it (angle 0, bearing 0).
C20_Witness ==
    /\ location # Null
    /\ \E i \in DOMAIN photos :
        /\ AzimuthMilliDeg[<< location.latitude, location.longitude,
                              photos[i].latitude, photos[i].longitude >>] = Degrees(-90)
        /\ computeBearing(location.latitude, location.longitude,
                          photos[i].latitude, photos[i].longitude) = Degrees(270)
    /\ \E i \in DOMAIN photos :
        /\ AzimuthMilliDeg[<< location.latitude, location.longitude,
                              photos[i].latitude, photos[i].longitude >>] = 0
        /\ computeBearing(location.latitude, location.longitude,
                          photos[i].latitude, photos[i].longitude) = 0

\* ---------------------------------------------------------------- C21
\* C21: the bearing from a point to the same point is 0, one definite number
\* (under SpecGeodesy).
C21_BearingOfIdenticalPoints ==
    (calc.op = "geodesy" /\ calc.done /\ calc.from = calc.to) => calc.bearing = 0

\* The bearing has been computed from a point off the equator to itself.
C21_Witness ==
    /\ calc.op = "geodesy" /\ calc.done
    /\ calc.from = GeoPoint(49999, 0) /\ calc.to = calc.from
    /\ calc.bearing = 0

\* ---------------------------------------------------------------- C22
\* C22: the distance from a to b is the distance from b to a, so the two points
\* of a pair are classified near or far alike in both orders (under SpecGeodesy).
C22_DistanceSymmetric ==
    (calc.op = "geodesy" /\ calc.done) =>
        /\ calc.distance = calc.distanceBack
        /\ (calc.distance < Threshold) = (calc.distanceBack < Threshold)

\* The two distances of the pair of points exactly the close-by threshold apart
\* have been computed.
C22_Witness ==
    /\ calc.op = "geodesy" /\ calc.done
    /\ calc.from = GeoPoint(224, 0) /\ calc.to = GeoPoint(0, 0)
    /\ calc.distance = Threshold /\ calc.distance = calc.distanceBack

\* The near side and the far side of the threshold both occur among the pairs.
GeodesyNearAndFarPairs ==
    /\ \E a, b \in GeodesyPoints :
         a # b /\ computeDistance(a.latitude, a.longitude, b.latitude, b.longitude) < Threshold
    /\ \E a, b \in GeodesyPoints :
         computeDistance(a.latitude, a.longitude, b.latitude, b.longitude) >= Threshold

\* ---------------------------------------------------------------- C23
\* C23: for every bearing and heading in [0, 360) the wrap of the test screen gives
\* the angular offset of the AR screen's +540 form, and the same decision to
\* show or hide the marker (under SpecAngle).
C23_TestScreenWrapEquivalent ==
    (calc.op = "angleDiff" /\ calc.done) =>
        /\ calc.testResult = calc.result
        /\ outsideFieldOfView(calc.testResult) = outsideFieldOfView(calc.result)

\* The two wraps agree wherever bearing - heading is at least -180, and the wrap of
\* the test screen is a whole turn below the other wherever it is not.
TestScreenWrapWholeTurnBelow ==
    (calc.op = "angleDiff" /\ calc.done) =>
        calc.testResult = IF calc.bearing - calc.heading >= Degrees(-180)
                          THEN calc.result
                          ELSE calc.result - Degrees(360)

\* ---------------------------------------------------------------- C24
\* C24: two notifications of being near a photo, for the same photo, are more than
\* NOTIFICATION_COOLDOWN apart, whatever positions are delivered in between
\* (under SpecGalleryClock).
C24_NotificationsCooldownApart ==
    \A i, j \in DOMAIN gallery.sent :
        (i < j /\ gallery.sent[i].id = gallery.sent[j].id) =>
            gallery.sent[j].at - gallery.sent[i].at > NOTIFICATION_COOLDOWN

\* A photo has been notified twice, the second time a minute after the cooldown.
C24_Witness ==
    \E i, j \in DOMAIN gallery.sent :
        /\ i < j /\ gallery.sent[i].id = gallery.sent[j].id
        /\ gallery.sent[j].at - gallery.sent[i].at = NOTIFICATION_COOLDOWN + 1

\* A position of the photo delivered up to the end of the cooldown sends nothing:
\* the callback leaves the notifications as they are.
MatchWithinCooldownSilent ==
    [][\A newCoords \in Positions :
          (/\ GalleryLocationCallback(newCoords)
           /\ \A i \in DOMAIN gallery.rendered.photos :
                LET id == gallery.rendered.photos[i].id
                IN  /\ gallery.notifiedPhotos[id] # 0
                    /\ gallery.now - gallery.notifiedPhotos[id] <= NOTIFICATION_COOLDOWN)
          => gallery'.sent = gallery.sent]_vars

\* The photo is matched again exactly when the cooldown ends.
MatchAtEndOfCooldown ==
    /\ gallery.rendered.photos # <<>>
    /\ \E id \in AssetIds :
         /\ gallery.notifiedPhotos[id] # 0
         /\ gallery.now - gallery.notifiedPhotos[id] = NOTIFICATION_COOLDOWN
    /\ gallery.watch \in {"active", "leaked"}

\* ---------------------------------------------------------------- C25
\* C25 (as claimed): at most one call of loadMorePhotos awaits an answer at any
\* time, also when the list calls onEndReached again before the component has
\* rendered (under SpecGallery).
C25_OneLoadInFlight ==
    Len(gallery.loads) <= 1

\* A call of onEndReached made after the render that followed setLoadingMore(true)
\* starts nothing: whenever the handler on the screen was created with loadingMore
\* false, at most one call awaits an answer or the state has not been rendered.
OneLoadInFlightOnceRendered ==
    (gallery.mounted /\ gallery.rendered = stateOf(gallery) /\ ~gallery.locationSet
        /\ gallery.loads # <<>>)
    => gallery.handleEndReached.loadingMore \/ ~gallery.loadingMore

\* ---------------------------------------------------------------- C26
\* C26 (as claimed): the photos of the gallery never hold two items of the same
\* asset id, and a step never removes or reorders the items already there: the
\* photos before it are the first of the photos after it (under SpecGallery).
C26_NoDuplicateAndOnlyAppended ==
    /\ [](\A i, j \in DOMAIN gallery.photos :
             gallery.photos[i].id = gallery.photos[j].id => i = j)
    /\ [][/\ Len(gallery'.photos) >= Len(gallery.photos)
          /\ SubSeq(gallery'.photos, 1, Len(gallery.photos)) = gallery.photos]_vars

\* Merging a page never removes or reorders the items already in the list.
PhotosOnlyAppended ==
    [][/\ Len(gallery'.photos) >= Len(gallery.photos)
       /\ SubSeq(gallery'.photos, 1, Len(gallery.photos)) = gallery.photos]_vars

\* ---------------------------------------------------------------- C28
\* The only call of loadMorePhotos awaiting an answer fails: the step of
\* GalleryLoadFailed for it.
OnlyLoadFails(i) ==
    GalleryLoadFailed(i) /\ Len(gallery.loads) = 1

\* C28 (as claimed): when a call of loadMorePhotos fails, at the asset query or at
\* an info lookup, the photos are as they were, the cursor is the one the call
\* asked after (and after a failed first load hasNextPage is still true), so that
\* the next load asks for the same page, and loadingMore is false (under
\* SpecGallery).
C28_FailedLoadRestoresState ==
    [][\A i \in 1..MaxLoads :
          OnlyLoadFails(i) =>
              /\ gallery'.photos = gallery.photos
              /\ gallery'.endCursor = gallery.loads[i].after
              /\ gallery.task = "firstLoad" => gallery'.hasNextPage
              /\ ~gallery'.loadingMore]_vars

\* A failure of the asset query itself leaves the photos, the cursor and
\* hasNextPage as they were, and loadingMore false.
FailedQueryRestoresState ==
    [][\A i \in 1..MaxLoads :
          (OnlyLoadFails(i) /\ gallery.loads[i].stage = "getAssets") =>
              /\ gallery'.photos = gallery.photos
              /\ gallery'.endCursor = gallery.endCursor
              /\ gallery'.hasNextPage = gallery.hasNextPage
              /\ ~gallery'.loadingMore]_vars

\* After a failed info lookup of the last page nothing asks for that page again:
\* its located assets are not among the photos and no more pages are expected.
PageSkippedForGood ==
    /\ gallery.mounted /\ gallery.loads = <<>> /\ gallery.task = "done"
    /\ ~gallery.hasNextPage /\ gallery.endCursor # 0
    /\ gallery.photos = <<>>
    /\ newPhotos(gallery.library, gallery.coords) # <<>>

\* ---------------------------------------------------------------- C30
\* C30 (as claimed): in every execution of the mounted gallery the loading flag
\* becomes false at some time, a permission denied and a first page that fails
\* included (under SpecGalleryFair).
C30_LoadingEventuallyFalse ==
    <>(~gallery.loading \/ ~gallery.mounted)

\* Once the first loadMorePhotos has been called, loading does become false,
\* whether the call is answered or fails.
FirstLoadEndsLoading ==
    (gallery.task = "firstLoad") ~> (~gallery.loading \/ ~gallery.mounted)

\* The mount effect has returned at a permission denied, or ended at the position
\* rejected, with the spinner on the screen.
SpinnerLeftOn ==
    /\ gallery.mounted /\ gallery.loading
    /\ gallery.task \in {"returned", "rejected"}

\* ---------------------------------------------------------------- C27
\* C27 (as claimed): once an answer has reported no next page for a media type, no
\* asset query of that type is issued any more, whatever the other type still has
\* (under SpecMediaGallery).
C27_NoQueryAfterLastPage ==
    \A i, j \in DOMAIN gallery.log :
        (/\ i < j
         /\ gallery.log[i].event = "lastPage"
         /\ gallery.log[j].event = "query")
        => gallery.log[i].mediaType # gallery.log[j].mediaType

\* Once both media types have reported no next page and the component has
\* rendered, the list starts no further load.
NoLoadAfterBothLastPages ==
    [][(/\ ~gallery.rendered.photoHasNextPage /\ ~gallery.rendered.videoHasNextPage
        /\ gallery.rendered = mediaStateOf(gallery) /\ ~gallery.locationSet
        /\ gallery.loads = <<>>)
       => gallery'.log = gallery.log]_vars

\* ---------------------------------------------------------------- C29
\* C29 (as claimed): an arrival sends one notification, 'Remember this moment?'
\* only if a matching location had been recorded by an earlier arrival (none has
\* when the component mounts), and recording the location starts nothing: no two
\* notifications are for matching locations, and the effect runs once (under
\* SpecArrival).
C29_OneNotificationPerArrival ==
    /\ \A i, j \in DOMAIN gallery.notifications :
           i < j => ~isSameLocation(gallery.notifications[i].coords,
                                    gallery.notifications[j].coords, VISITED_THRESHOLD)
    /\ gallery.started <= 1

\* 'Remember this moment?' is sent only for a location matching one recorded
\* before, and 'Capture the moment?' is the first notification.
RememberOnlyAfterRecorded ==
    \A j \in DOMAIN gallery.notifications :
        IF gallery.notifications[j].message = "Remember this moment?"
        THEN \E i \in 1..(j - 1) :
                 /\ gallery.notifications[i].message = "Capture the moment?"
                 /\ isSameLocation(gallery.notifications[i].coords,
                                   gallery.notifications[j].coords, VISITED_THRESHOLD)
        ELSE TRUE

\* The runs of the effect come to an end: no more of them than MaxRuns at a time.
EffectRunsBounded ==
    Len(gallery.runs) < MaxRuns /\ gallery.started < MaxRuns

====
